---- MODULE Spec2Model ----
(***************************************************************************)
(* Model of the render-command pipeline of led-matrix-rs: the command      *)
(* channel, the render loop of src/render.rs with its two preemptible      *)
(* loops (PlayVideo, ScrollText), the double-buffered canvas, the shared   *)
(* brightness setting and the published DisplayStatus.                     *)
(***************************************************************************)
EXTENDS Integers, Sequences, FiniteSets, TLC

\* ------------------------------------------------------------------ bounds
\* Panel geometry used by the model (PanelConfig.rows / PanelConfig.cols).
Rows == 2
Cols == 2
\* Number of commands the producers send in one behaviour.
MaxSubmit == 3
\* Number of stream clients connected at the same time.
MaxConn == 1
\* Number of frame requests and stream messages handled in one behaviour.
MaxReq == 3

\* ------------------------------------------------------- program constants
\* DisplayStatus::new(): brightness: 75, and the shared brightness setting.
InitialBrightness == 75
\* value.min(100)
MaxBrightness == 100
\* text_width = text.len() * 8
GlyphWidth == 8

\* ------------------------------------------------------------ Option<T>
None == <<>>
Some(v) == <<v>>

\* ---------------------------------------------------------- PanelConfig
\* (of the model's panel; the products stay far below 2^32 here)
pixel_count == Rows * Cols
frame_byte_count == Rows * Cols * 3

\* ------------------------------------------------------------------ u32
\* An unsigned integer is the sequence of its base-256 digits, lowest first:
\* a u32 has 4 of them, a usize 8.
Limbs(n, len) == [i \in 1 .. len |-> (n \div 256 ^ (i - 1)) % 256]

\* The digits a, extended with zeros to len digits.
Pad(a, len) == [i \in 1 .. len |-> IF i <= Len(a) THEN a[i] ELSE 0]

\* The sum of the digit products of a and b that weigh 256^k.
RECURSIVE Coef(_, _, _, _)
Coef(a, b, k, i) ==
    IF i > Len(a) THEN 0
    ELSE (IF k - i + 2 \in DOMAIN b THEN a[i] * b[k - i + 2] ELSE 0) + Coef(a, b, k, i + 1)

\* The exact product of a and b, Len(a) + Len(b) digits: digit k and the
\* carry into digit k + 1.
RECURSIVE MulFrom(_, _, _, _)
MulFrom(a, b, k, carry) ==
    IF k > Len(a) + Len(b) - 1 THEN <<>>
    ELSE <<(Coef(a, b, k, 1) + carry) % 256>>
         \o MulFrom(a, b, k + 1, (Coef(a, b, k, 1) + carry) \div 256)

MulLimbs(a, b) == MulFrom(a, b, 0, 0)

\* The two ways the multiplication is compiled: with overflow checks (the
\* default of a debug build) it panics on overflow, without (release) it wraps.
Builds == {"debug", "release"}

\* a * b on u32
mul_u32(a, b, build) ==
    LET w == MulLimbs(a, b)
        overflow == \E i \in 5 .. 8 : w[i] # 0
    IN  IF overflow /\ build = "debug"
        THEN [panic |-> TRUE, val |-> <<>>]
        ELSE [panic |-> FALSE, val |-> SubSeq(w, 1, 4)]

\* PanelConfig::pixel_count: self.rows * self.cols
PanelConfig_pixel_count(rows, cols, build) == mul_u32(rows, cols, build)

\* PanelConfig::frame_byte_count: (self.rows * self.cols * 3) as usize
PanelConfig_frame_byte_count(rows, cols, build) ==
    LET rc == mul_u32(rows, cols, build)
        rc3 == mul_u32(rc.val, Limbs(3, 4), build)
    IN  IF rc.panic \/ rc3.panic
        THEN [panic |-> TRUE, val |-> <<>>]
        ELSE [panic |-> FALSE, val |-> Pad(rc3.val, 8)]

\* Pixel positions <<x, y>> of the panel.
Pos == (0 .. Cols - 1) \X (0 .. Rows - 1)

\* ---------------------------------------------------------------- Color
Black == <<0, 0, 0>>

\* ------------------------------------------------------------------ f32
\* A non-negative f32 is [m, e], of value m * 2^e, with m = 0 or
\* 2^23 <= m < 2^24 (24 significant bits); every operation rounds its exact
\* result to the nearest such value, ties to the even mantissa.
F32Zero == [m |-> 0, e |-> 0]
F32One == [m |-> 8388608, e |-> -23]

\* The number of bits of n.
RECURSIVE Bits(_)
Bits(n) == IF n = 0 THEN 0 ELSE 1 + Bits(n \div 2)

\* The f32 nearest to n * 2^e, for 0 <= n < 2^31.
f32_round(n, e) ==
    IF n = 0 THEN F32Zero
    ELSE IF Bits(n) <= 24 THEN [m |-> n * 2 ^ (24 - Bits(n)), e |-> e - (24 - Bits(n))]
    ELSE LET sh == Bits(n) - 24
             q == n \div 2 ^ sh
             rem == n % 2 ^ sh
             half == 2 ^ (sh - 1)
             up == rem > half \/ (rem = half /\ q % 2 = 1)
         IN  IF up /\ q + 1 = 16777216
             THEN [m |-> 8388608, e |-> e + sh + 1]
             ELSE [m |-> IF up THEN q + 1 ELSE q, e |-> e + sh]

\* (p as f32) / (q as f32) for integers 0 <= p, 0 < q < 64: the quotient is
\* taken to 25 bits, the remainder tells whether it is exact.
f32_div_int(p, q) ==
    IF p = 0 THEN F32Zero
    ELSE LET k == CHOOSE k \in 0 .. 31 : q * 16777216 <= p * 2 ^ k /\ p * 2 ^ k < q * 33554432
             Q == (p * 2 ^ k) \div q
             sticky == (p * 2 ^ k) % q # 0
             m24 == Q \div 2
             up == Q % 2 = 1 /\ (sticky \/ m24 % 2 = 1)
         IN  IF up /\ m24 + 1 = 16777216
             THEN [m |-> 8388608, e |-> 2 - k]
             ELSE [m |-> IF up THEN m24 + 1 ELSE m24, e |-> 1 - k]

\* a - b for a >= b > 0 whose exponents differ by less than 7, or b = 0.
f32_sub(a, b) ==
    IF b.m = 0 THEN a
    ELSE IF a.e >= b.e THEN f32_round(a.m * 2 ^ (a.e - b.e) - b.m, b.e)
    ELSE f32_round(a.m - b.m * 2 ^ (b.e - a.e), a.e)

\* a * (k as f32) for an integer 0 < k < 256: the exact product is kept in
\* two parts, A * 4096 + B, and rounded to 24 bits.
f32_mul_small(a, k) ==
    IF a.m = 0 THEN F32Zero
    ELSE LET lo == (a.m % 4096) * k
             A == (a.m \div 4096) * k + lo \div 4096
             B == lo % 4096
             sh == Bits(A) + 12 - 24
             q == A * 2 ^ (12 - sh) + B \div 2 ^ sh
             rem == B % 2 ^ sh
             half == 2 ^ (sh - 1)
             up == rem > half \/ (rem = half /\ q % 2 = 1)
         IN  IF sh <= 0 THEN f32_round(a.m * k, a.e)
             ELSE IF up /\ q + 1 = 16777216
             THEN [m |-> 8388608, e |-> a.e + sh + 1]
             ELSE [m |-> IF up THEN q + 1 ELSE q, e |-> a.e + sh]

\* f as u8: the fraction is dropped, the value saturates at 255.
f32_to_u8(f) ==
    IF f.m = 0 \/ f.e <= -24 THEN 0
    ELSE IF f.e >= 0 THEN 255
    ELSE IF f.m \div 2 ^ (-f.e) > 255 THEN 255
    ELSE f.m \div 2 ^ (-f.e)

\* (mutant) the hue is not reduced modulo 360
from_hue_unreduced(hue) ==
    LET sector == hue \div 60
        fraction == f32_div_int(hue % 60, 60)
        rising == f32_to_u8(f32_mul_small(fraction, 255))
        falling == f32_to_u8(f32_mul_small(f32_sub(F32One, fraction), 255))
    IN  CASE sector = 0 -> <<255, rising, 0>>
          [] sector = 1 -> <<falling, 255, 0>>
          [] sector = 2 -> <<0, 255, rising>>
          [] sector = 3 -> <<0, falling, 255>>
          [] sector = 4 -> <<rising, 0, 255>>
          [] sector = 5 -> <<255, 0, falling>>
          [] OTHER -> <<255, 0, 0>>

\* (mutant) the third channel rises in every sector
from_hue_all_rising(hue) ==
    LET h == hue % 360
        sector == h \div 60
        fraction == f32_div_int(h % 60, 60)
        rising == f32_to_u8(f32_mul_small(fraction, 255))
    IN  CASE sector = 0 -> <<255, rising, 0>>
          [] sector = 1 -> <<rising, 255, 0>>
          [] sector = 2 -> <<0, 255, rising>>
          [] sector = 3 -> <<0, rising, 255>>
          [] sector = 4 -> <<rising, 0, 255>>
          [] sector = 5 -> <<255, 0, rising>>
          [] OTHER -> <<255, 0, 0>>

\* Color::from_hue
from_hue(hue) ==
    LET h == hue % 360
        sector == h \div 60
        fraction == f32_div_int(h % 60, 60)
        rising == f32_to_u8(f32_mul_small(fraction, 255))
        falling == f32_to_u8(f32_mul_small(f32_sub(F32One, fraction), 255))
    IN  CASE sector = 0 -> <<255, rising, 0>>
          [] sector = 1 -> <<falling, 255, 0>>
          [] sector = 2 -> <<0, 255, rising>>
          [] sector = 3 -> <<0, falling, 255>>
          [] sector = 4 -> <<rising, 0, 255>>
          [] sector = 5 -> <<255, 0, falling>>
          [] OTHER -> <<255, 0, 0>>

\* (mutant) the product is kept in 8 bits
apply_brightness_narrow(c, b) ==
    IF b >= 100 THEN c
    ELSE [i \in 1 .. 3 |-> (((c[i] * b) % 256) \div 100) % 256]

\* Color::apply_brightness
apply_brightness(c, b) ==
    IF b >= 100 THEN c
    ELSE [i \in 1 .. 3 |-> (((c[i] * b) % 65536) \div 100) % 256]

\* (mutant) the value is stored as received
clamp_brightness_missing(value) == value

\* value.min(100) of the three SetBrightness handlers
clamp_brightness(value) == IF value < MaxBrightness THEN value ELSE MaxBrightness

\* ------------------------------------------------------------- canvases
\* A canvas after LedCanvas::clear(): every pixel off.
Blank == [p \in Pos |-> Black]

\* An RgbImage: width, height and its pixels, here one of a single colour.
Image(w, h, c) == [w |-> w, h |-> h, px |-> [p \in (0 .. w - 1) \X (0 .. h - 1) |-> c]]

\* draw_frame_to_canvas: canvas.set for every pixel of the image; a set
\* outside the panel is ignored by the driver.
draw_frame_to_canvas(canvas, img) ==
    [p \in Pos |-> IF p[1] < img.w /\ p[2] < img.h THEN img.px[p] ELSE canvas[p]]

\* (mutant) the image is drawn as decoded
draw_frame_with_brightness_unscaled(canvas, img, b) == draw_frame_to_canvas(canvas, img)

\* draw_frame_with_brightness
draw_frame_with_brightness(canvas, img, b) ==
    IF b >= 100 THEN draw_frame_to_canvas(canvas, img)
    ELSE [p \in Pos |-> IF p[1] < img.w /\ p[2] < img.h
                          THEN apply_brightness(img.px[p], b) ELSE canvas[p]]

\* (mutant) the buffer is read column by column
draw_raw_frame_column_major(canvas, data, b) ==
    [p \in Pos |->
        LET offset == (p[1] * Rows + p[2]) * 3
        IN  apply_brightness(<<data[offset + 1], data[offset + 2], data[offset + 3]>>, b)]

\* draw_raw_frame: row-major RGB24, data is 1-indexed here.
draw_raw_frame(canvas, data, b) ==
    [p \in Pos |->
        LET offset == (p[2] * Cols + p[1]) * 3
        IN  apply_brightness(<<data[offset + 1], data[offset + 2], data[offset + 3]>>, b)]

\* (mutant) the frames are kept as decoded
apply_brightness_to_image_skipped(img, b) == img

\* apply_brightness_to_image
apply_brightness_to_image(img, b) ==
    IF b >= 100 THEN img
    ELSE [img EXCEPT !.px = [p \in DOMAIN img.px |-> apply_brightness(img.px[p], b)]]

\* canvas.draw_text(&font, &text, x, ...): the glyphs of the text occupy the
\* columns x .. x + text_width - 1.
draw_text(canvas, text_width, xpos, c) ==
    [p \in Pos |-> IF xpos <= p[1] /\ p[1] < xpos + text_width THEN c ELSE canvas[p]]

\* ------------------------------------------------- media on disk (static)
\* A file name is a sequence of character codes, so that paths sort
\* lexicographically as PathBuf does.
RECURSIVE LexLess(_, _)
LexLess(a, b) ==
    IF a = <<>> THEN b # <<>>
    ELSE IF b = <<>> THEN FALSE
    ELSE IF a[1] # b[1] THEN a[1] < b[1]
    ELSE LexLess(Tail(a), Tail(b))

\* A decodable frame file of a video directory: k identifies the picture.
FrameImage(k, w, h) ==
    [w |-> w, h |-> h,
     px |-> [p \in (0 .. w - 1) \X (0 .. h - 1) |-> <<(k * 50) % 256, 11 + 20 * p[1], 7 + 30 * p[2]>>]]

Entry(name, ext, k, w, h) == [name |-> name, ext |-> ext, k |-> k, w |-> w, h |-> h]

\* fs::read_dir(dir): the entries in the order the file system lists them
\* (k = 0: a file the decoder rejects).
ReadDir(dir) ==
    CASE dir = "clip3" -> [ok |-> TRUE, entries |->
                << Entry(<<2>>, "png", 2, Cols, Rows), Entry(<<9>>, "txt", 0, 0, 0),
                   Entry(<<1, 0>>, "jpg", 1, Cols, Rows), Entry(<<3>>, "jpeg", 3, Cols, Rows) >>]
      [] dir = "empty" -> [ok |-> TRUE, entries |-> << Entry(<<1>>, "txt", 0, 0, 0) >>]
      [] dir = "allbad" -> [ok |-> TRUE, entries |->
                << Entry(<<1>>, "png", 0, 0, 0), Entry(<<2>>, "jpg", 0, 0, 0) >>]
      [] dir = "partial" -> [ok |-> TRUE, entries |->
                << Entry(<<3>>, "png", 3, Cols, Rows), Entry(<<2>>, "png", 0, 0, 0),
                   Entry(<<1, 5>>, "jpeg", 1, Cols, Rows), Entry(<<4>>, "jpg", 0, 0, 0) >>]
      [] dir = "small" -> [ok |-> TRUE, entries |->
                << Entry(<<1>>, "png", 4, Cols - 1, Rows), Entry(<<2>>, "png", 5, Cols - 1, Rows) >>]
      [] OTHER -> [ok |-> FALSE, entries |-> <<>>]

IsFrameExt(ext) == ext = "jpg" \/ ext = "jpeg" \/ ext = "png"

\* (mutant) the paths are kept in the order read_dir lists them
frame_paths_unsorted(d) ==
    LET paths == SelectSeq(d.entries, LAMBDA e : IsFrameExt(e.ext))
    IN  IF ~d.ok \/ paths = <<>> THEN [ok |-> FALSE, paths |-> <<>>]
        ELSE [ok |-> TRUE, paths |-> paths]

\* The body of load_frame_paths on the listing d that read_dir returned:
\* filter by extension, sort, error when nothing is left.
frame_paths(d) ==
    LET paths == SelectSeq(d.entries, LAMBDA e : IsFrameExt(e.ext))
        sorted == SortSeq(paths, LAMBDA a, b : LexLess(a.name, b.name))
    IN  IF ~d.ok \/ paths = <<>> THEN [ok |-> FALSE, paths |-> <<>>]
        ELSE [ok |-> TRUE, paths |-> sorted]

load_frame_paths(dir) == frame_paths(ReadDir(dir))

\* load_frame: decode one frame file (no resize).
load_frame(e) ==
    IF e.k = 0 THEN [ok |-> FALSE, img |-> Image(0, 0, Black)]
    ELSE [ok |-> TRUE, img |-> FrameImage(e.k, e.w, e.h)]

\* load_and_resize_image: decode and resize to exactly the panel size.
load_and_resize_image(path) ==
    IF path = "ok.png"
    THEN [ok |-> TRUE, img |-> [w |-> Cols, h |-> Rows,
                                 px |-> [p \in Pos |-> <<201, 99 + 20 * p[1], 33 + 30 * p[2]>>]]]
    ELSE [ok |-> FALSE, img |-> Image(0, 0, Black)]

\* LedFont::new(fonts_dir/<font>.bdf)
FontLoads(font) == font = "6x10"

\* ---------------------------------------------------------- RenderCommand
Cmd(kind) ==
    [kind |-> kind, path |-> "", loop |-> FALSE, text |-> "", font |-> "",
     color |-> Black, data |-> <<>>, value |-> 0]

Clear == Cmd("Clear")
Stop == Cmd("Stop")
SetBrightness(v) == [Cmd("SetBrightness") EXCEPT !.value = v]
ShowImage(path) == [Cmd("ShowImage") EXCEPT !.path = path]
ShowFrame(data) == [Cmd("ShowFrame") EXCEPT !.data = data]
PlayVideo(dir, loop) == [Cmd("PlayVideo") EXCEPT !.path = dir, !.loop = loop]
ScrollText(text, font, color) ==
    [Cmd("ScrollText") EXCEPT !.text = text, !.font = font, !.color = color]

\* A raw frame buffer of n bytes.
RawData(n, seed) == [i \in 1 .. n |-> (seed + 37 * i) % 256]

\* -------------------------------------------------------- DisplayStatus
\* DisplayStatus::new()
NewStatus ==
    [state |-> "Idle", current_media |-> None, frame |-> None,
     total_frames |-> None, brightness |-> InitialBrightness]

\* (mutant) only the state is reset
set_idle_state_only(s) == [s EXCEPT !.state = "Idle"]

\* DisplayStatus::set_idle
set_idle(s) ==
    [s EXCEPT !.state = "Idle", !.current_media = None, !.frame = None,
              !.total_frames = None]

\* ------------------------------------------------------------------ state
VARIABLES
    pc,                 \* where the render thread is in render_loop
    chan,               \* the mpsc channel: commands sent and not yet received
    closed,             \* every Sender has been dropped
    pending,            \* pending_cmd: Option<RenderCommand>
    cmd,                \* cmd: the command the main match was last entered with
    status,             \* the shared DisplayStatus
    brightness,         \* the shared brightness setting (Arc<Mutex<u8>>)
    canvas,             \* the off-screen canvas the thread draws to
    visible,            \* the buffer the panel shows
    frames,             \* PlayVideo: the pre-loaded frames
    frame_index,        \* PlayVideo: the frame cursor
    x,                  \* ScrollText: the draw position
    current_brightness, \* the brightness a running arm has read
    submitted,          \* history: every command sent, in order
    handled,            \* history: every command dispatched or absorbed, in order
    recvKind,           \* history: the receive made by the last engine step
    ws,                 \* the number of running handle_stream_socket tasks
    ops,                \* history: what the last engine step did, in code order
    reply,              \* history: the outcome of the last request handled
    calc                \* the last call of a pure function: its input and result

vars == <<pc, chan, closed, pending, cmd, status, brightness, canvas, visible,
          frames, frame_index, x, current_brightness, submitted, handled, recvKind,
          ws, ops, reply, calc>>

display == <<canvas, visible>>
locals == <<frames, frame_index, x, current_brightness>>
aux == <<reply, calc>>

\* No request handled yet, no function called yet.
NoReply == [n |-> 0, by |-> "", len |-> 0, outcome |-> ""]
NoCall == [fn |-> "", arg |-> <<>>, out |-> <<>>]

Init ==
    /\ pc = "init"
    /\ chan = <<>>
    /\ closed = FALSE
    /\ pending = None
    /\ cmd = None
    /\ status = NewStatus
    /\ brightness = InitialBrightness
    /\ canvas = Blank
    /\ visible = Blank
    /\ frames = <<>>
    /\ frame_index = 0
    /\ x = 0
    /\ current_brightness = 0
    /\ submitted = <<>>
    /\ handled = <<>>
    /\ recvKind = "none"
    /\ ws = 0
    /\ ops = <<>>
    /\ reply = NoReply
    /\ calc = NoCall

\* ------------------------------------------------------------- producers
\* command_tx.send(c) of a request handler; it fails once the receiver is gone.
Send(c) ==
    /\ ~closed
    /\ pc # "done"
    /\ Len(submitted) < MaxSubmit
    /\ chan' = Append(chan, c)
    /\ submitted' = Append(submitted, c)
    /\ UNCHANGED <<pc, closed, pending, cmd, status, brightness, canvas, visible,
                   frames, frame_index, x, current_brightness, handled, recvKind, ws,
                   ops, aux>>

\* The last Sender is dropped: the channel is disconnected.
DropSenders ==
    /\ ~closed
    /\ closed' = TRUE
    /\ UNCHANGED <<pc, chan, pending, cmd, status, brightness, canvas, visible,
                   frames, frame_index, x, current_brightness, submitted, handled,
                   recvKind, ws, ops, aux>>

\* ---------------------------------------------------------- render_loop
\* What a step of the thread does is recorded in ops, in the order of the
\* code: "recv", "try_recv", "sleep", "load" (file I/O and decoding), "draw",
\* "clear", "swap", and the acquisition and release of the two mutexes.
\* (mutant) the guard of the status lock is kept
StatusSectionHeld == <<"lock_status">>

\* { let mut s = status.lock().unwrap(); ... } and status.lock().unwrap().f():
\* the guard is dropped at the end of the block or of the statement.
StatusSection == <<"lock_status", "unlock_status">>

\* *brightness.lock().unwrap(): the guard is a temporary of the statement.
BrightnessSection == <<"lock_brightness", "unlock_brightness">>

\* (mutant) the canvas drawn is not swapped in
DrawNoSwap == <<"draw">>

\* canvas drawn, then canvas = matrix.swap(canvas)
DrawSwap == <<"draw", "swap">>

\* canvas.clear(), then canvas = matrix.swap(canvas)
ClearSwap == <<"clear", "swap">>

\* create_matrix(panel): Ok, the thread enters the loop; Err, it returns.
HwInit(ok) ==
    /\ pc = "init"
    /\ pc' = IF ok THEN "recv" ELSE "done"
    /\ ops' = <<>>
    /\ UNCHANGED <<chan, closed, pending, cmd, status, brightness, canvas, visible,
                   frames, frame_index, x, current_brightness, submitted, handled,
                   recvKind, ws, aux>>

\* (mutant) the blocking receive gives up on an empty channel
ShutDownWhenEmpty ==
    /\ pc = "recv"
    /\ pending = None
    /\ chan = <<>>
    /\ pc' = "done"
    /\ recvKind' = "recv"
    /\ ops' = <<"recv">>
    /\ UNCHANGED <<chan, closed, pending, cmd, status, brightness, canvas, visible,
                   frames, frame_index, x, current_brightness, submitted, handled, ws,
                   aux>>

\* rx.recv() on a disconnected, empty channel: break.
ShutDown ==
    /\ pc = "recv"
    /\ pending = None
    /\ chan = <<>>
    /\ closed
    /\ pc' = "done"
    /\ recvKind' = "recv"
    /\ ops' = <<"recv">>
    /\ UNCHANGED <<chan, closed, pending, cmd, status, brightness, canvas, visible,
                   frames, frame_index, x, current_brightness, submitted, handled, ws,
                   aux>>

\* The top of the loop has a command: the stashed one, or one recv() returns.
HasNext == pc = "recv" /\ (pending # None \/ chan # <<>>)

NextCmd == IF pending # None THEN pending[1] ELSE Head(chan)

\* let cmd = if let Some(cmd) = pending_cmd.take() { cmd } else { rx.recv() }
TakeNext ==
    /\ HasNext
    /\ pending' = None
    /\ chan' = IF pending # None THEN chan ELSE Tail(chan)
    /\ recvKind' = IF pending # None THEN "none" ELSE "recv"
    /\ cmd' = Some(NextCmd)
    /\ handled' = Append(handled, NextCmd)
    /\ UNCHANGED <<closed, submitted, ws, aux>>

\* The receive of TakeNext: none when the stashed command is taken.
Took == IF pending # None THEN <<>> ELSE <<"recv">>

\* matrix.swap(canvas): the drawn canvas becomes visible, the buffer that
\* was visible comes back as the next off-screen canvas.
Swap(drawn) ==
    /\ visible' = drawn
    /\ canvas' = visible

\* RenderCommand::Clear
OnClear ==
    /\ TakeNext
    /\ NextCmd.kind = "Clear"
    /\ Swap(Blank)
    /\ status' = set_idle(status)
    /\ ops' = Took \o ClearSwap \o StatusSection
    /\ UNCHANGED <<pc, brightness, locals>>

\* (mutant) Stop blanks the display as Clear does
OnStopClears ==
    /\ TakeNext
    /\ NextCmd.kind = "Stop"
    /\ Swap(Blank)
    /\ status' = set_idle(status)
    /\ ops' = Took \o ClearSwap \o StatusSection
    /\ UNCHANGED <<pc, brightness, locals>>

\* RenderCommand::Stop
OnStop ==
    /\ TakeNext
    /\ NextCmd.kind = "Stop"
    /\ status' = set_idle(status)
    /\ ops' = Took \o StatusSection
    /\ UNCHANGED <<pc, brightness, display, locals>>

\* (mutant) the visible pixels are rescaled to the new brightness
OnSetBrightnessRedraws ==
    /\ TakeNext
    /\ NextCmd.kind = "SetBrightness"
    /\ brightness' = clamp_brightness(NextCmd.value)
    /\ status' = [status EXCEPT !.brightness = clamp_brightness(NextCmd.value)]
    /\ Swap([p \in Pos |-> apply_brightness(visible[p], clamp_brightness(NextCmd.value))])
    /\ ops' = Took \o BrightnessSection \o StatusSection \o DrawSwap
    /\ UNCHANGED <<pc, locals>>

\* (mutant) only the published brightness is updated
OnSetBrightnessStatusOnly ==
    /\ TakeNext
    /\ NextCmd.kind = "SetBrightness"
    /\ status' = [status EXCEPT !.brightness = clamp_brightness(NextCmd.value)]
    /\ ops' = Took \o StatusSection
    /\ UNCHANGED <<pc, brightness, display, locals>>

\* RenderCommand::SetBrightness
OnSetBrightness ==
    /\ TakeNext
    /\ NextCmd.kind = "SetBrightness"
    /\ brightness' = clamp_brightness(NextCmd.value)
    /\ status' = [status EXCEPT !.brightness = clamp_brightness(NextCmd.value)]
    /\ ops' = Took \o BrightnessSection \o StatusSection
    /\ UNCHANGED <<pc, display, locals>>

\* RenderCommand::ShowImage, up to the release of the status lock
OnShowImage ==
    /\ TakeNext
    /\ NextCmd.kind = "ShowImage"
    /\ status' = [status EXCEPT !.state = "ShowingImage",
                                !.current_media = Some(NextCmd.path),
                                !.frame = None, !.total_frames = None]
    /\ pc' = "image_load"
    /\ ops' = Took \o StatusSection
    /\ UNCHANGED <<brightness, display, locals>>

\* (mutant) a failed load leaves the status as published
ShowImageLoadKeepsStatus ==
    /\ pc = "image_load"
    /\ LET r == load_and_resize_image(cmd[1].path)
       IN  IF r.ok
           THEN Swap(draw_frame_with_brightness(canvas, r.img, brightness))
           ELSE UNCHANGED display
    /\ status' = status
    /\ pc' = "recv"
    /\ recvKind' = "none"
    /\ ops' = <<"load">> \o (IF load_and_resize_image(cmd[1].path).ok
                             THEN BrightnessSection \o DrawSwap ELSE <<>>)
    /\ UNCHANGED <<chan, closed, pending, cmd, brightness, locals, submitted, handled, ws,
                   aux>>

\* RenderCommand::ShowImage, the match on load_and_resize_image
ShowImageLoad ==
    /\ pc = "image_load"
    /\ LET r == load_and_resize_image(cmd[1].path)
       IN  IF r.ok
           THEN /\ Swap(draw_frame_with_brightness(canvas, r.img, brightness))
                /\ status' = status
           ELSE /\ status' = set_idle(status)
                /\ UNCHANGED display
    /\ pc' = "recv"
    /\ recvKind' = "none"
    /\ ops' = <<"load">> \o (IF load_and_resize_image(cmd[1].path).ok
                             THEN BrightnessSection \o DrawSwap ELSE StatusSection)
    /\ UNCHANGED <<chan, closed, pending, cmd, brightness, locals, submitted, handled, ws,
                   aux>>

\* (mutant) a buffer that is long enough is accepted
frame_size_at_least(data) == Len(data) >= frame_byte_count

\* data.len() == expected
frame_size_ok(data) == Len(data) = frame_byte_count

\* (mutant) an accepted frame marks the display as streaming
OnShowFrameSetsStreaming ==
    /\ TakeNext
    /\ NextCmd.kind = "ShowFrame"
    /\ IF frame_size_ok(NextCmd.data)
       THEN /\ Swap(draw_raw_frame(canvas, NextCmd.data, brightness))
            /\ status' = [status EXCEPT !.state = "Streaming"]
       ELSE UNCHANGED <<display, status>>
    /\ ops' = Took \o (IF frame_size_ok(NextCmd.data)
                       THEN BrightnessSection \o DrawSwap \o StatusSection ELSE <<>>)
    /\ UNCHANGED <<pc, brightness, locals>>

\* RenderCommand::ShowFrame
OnShowFrame ==
    /\ TakeNext
    /\ NextCmd.kind = "ShowFrame"
    /\ IF frame_size_ok(NextCmd.data)
       THEN Swap(draw_raw_frame(canvas, NextCmd.data, brightness))
       ELSE UNCHANGED display
    /\ ops' = Took \o (IF frame_size_ok(NextCmd.data)
                       THEN BrightnessSection \o DrawSwap ELSE <<>>)
    /\ UNCHANGED <<pc, status, brightness, locals>>

\* Locals of a match arm go out of scope when the arm is left.
DropLocals ==
    /\ frames' = <<>>
    /\ frame_index' = 0
    /\ x' = 0
    /\ current_brightness' = 0

\* (mutant) the pre-load loop stops at the first frame that fails to decode
RECURSIVE preload_frames_until_error(_, _)
preload_frames_until_error(paths, b) ==
    IF paths = <<>> THEN <<>>
    ELSE LET r == load_frame(Head(paths))
         IN  IF r.ok
             THEN <<apply_brightness_to_image(r.img, b)>>
                  \o preload_frames_until_error(Tail(paths), b)
             ELSE <<>>

\* The pre-load loop of PlayVideo: every frame file that decodes, in path
\* order, with the brightness b applied.
RECURSIVE preload_frames(_, _)
preload_frames(paths, b) ==
    IF paths = <<>> THEN <<>>
    ELSE LET r == load_frame(Head(paths))
         IN  (IF r.ok THEN <<apply_brightness_to_image(r.img, b)>> ELSE <<>>)
             \o preload_frames(Tail(paths), b)

\* (mutant) a command that cannot be carried out resets the status
AbandonToIdle ==
    /\ status' = set_idle(status)
    /\ UNCHANGED <<pc, locals>>

\* continue: a PlayVideo or ScrollText that cannot be carried out is left
Abandon == UNCHANGED <<pc, status, locals>>

\* RenderCommand::PlayVideo, up to the entry of 'playback
OnPlayVideo ==
    /\ TakeNext
    /\ NextCmd.kind = "PlayVideo"
    /\ LET lp == load_frame_paths(NextCmd.path)
           loaded == preload_frames(lp.paths, brightness)
       IN  IF ~lp.ok \/ loaded = <<>>
           THEN Abandon
           ELSE /\ frames' = loaded
                /\ frame_index' = 0
                /\ current_brightness' = brightness
                /\ status' = [status EXCEPT !.state = "PlayingVideo",
                                            !.current_media = Some(NextCmd.path),
                                            !.frame = Some(0),
                                            !.total_frames = Some(Len(loaded))]
                /\ pc' = "play"
                /\ x' = x
    /\ ops' = Took \o <<"load">>
               \o (IF ~load_frame_paths(NextCmd.path).ok THEN <<>>
                   ELSE BrightnessSection \o <<"load">>
                        \o (IF preload_frames(load_frame_paths(NextCmd.path).paths,
                                              brightness) = <<>>
                            THEN <<>> ELSE StatusSection))
    /\ UNCHANGED <<brightness, display>>

\* if let Ok(new_cmd) = rx.try_recv()
TryRecvOk == chan # <<>>

\* (mutant) only Stop and Clear interrupt a running loop
PreemptsOnlyStopClear(new_cmd) == new_cmd.kind \in {"Stop", "Clear"}

\* (mutant) every received command interrupts, SetBrightness too
PreemptsAll(new_cmd) == TRUE

\* (mutant) no received command interrupts
PreemptsNever(new_cmd) == FALSE

\* the _ => arm of the match on new_cmd
Preempts(new_cmd) == new_cmd.kind # "SetBrightness"

\* (mutant) the interrupting command is not kept
StashDropped(new_cmd) == None

\* pending_cmd = Some(new_cmd)
Stash(new_cmd) == Some(new_cmd)

\* (mutant) a looping video ends after its last frame like any other
PlaybackTickEndsLoop ==
    /\ pc = "play"
    /\ recvKind' = "try_recv"
    /\ IF TryRecvOk /\ Preempts(Head(chan))
       THEN /\ chan' = Tail(chan)
            /\ pending' = Stash(Head(chan))
            /\ pc' = "recv"
            /\ DropLocals
            /\ ops' = <<"try_recv">>
            /\ UNCHANGED <<status, brightness, display, handled>>
       ELSE /\ IF TryRecvOk
               THEN /\ chan' = Tail(chan)
                    /\ handled' = Append(handled, Head(chan))
                    /\ brightness' = clamp_brightness(Head(chan).value)
               ELSE UNCHANGED <<chan, handled, brightness>>
            /\ ops' = <<"try_recv">>
                       \o (IF TryRecvOk THEN BrightnessSection \o StatusSection ELSE <<>>)
                       \o DrawSwap \o StatusSection
                       \o (IF frame_index + 1 >= Len(frames) /\ ~cmd[1].loop
                           THEN <<>> ELSE <<"sleep">>)
            /\ Swap(draw_frame_to_canvas(canvas, frames[frame_index + 1]))
            /\ status' = [status EXCEPT !.brightness = brightness',
                                        !.frame = Some(frame_index)]
            /\ IF frame_index + 1 >= Len(frames)
               THEN frame_index' = frame_index + 1 /\ pc' = "play_finish"
               ELSE frame_index' = frame_index + 1 /\ pc' = "play"
            /\ UNCHANGED <<pending, frames, x, current_brightness>>
    /\ UNCHANGED <<closed, cmd, submitted, ws, aux>>

\* (mutant) the index published is the one of the frame that comes next
PlaybackTickPublishesNext ==
    /\ pc = "play"
    /\ recvKind' = "try_recv"
    /\ IF TryRecvOk /\ Preempts(Head(chan))
       THEN /\ chan' = Tail(chan)
            /\ pending' = Stash(Head(chan))
            /\ pc' = "recv"
            /\ DropLocals
            /\ ops' = <<"try_recv">>
            /\ UNCHANGED <<status, brightness, display, handled>>
       ELSE /\ IF TryRecvOk
               THEN /\ chan' = Tail(chan)
                    /\ handled' = Append(handled, Head(chan))
                    /\ brightness' = clamp_brightness(Head(chan).value)
               ELSE UNCHANGED <<chan, handled, brightness>>
            /\ ops' = <<"try_recv">>
                       \o (IF TryRecvOk THEN BrightnessSection \o StatusSection ELSE <<>>)
                       \o DrawSwap \o StatusSection
                       \o (IF frame_index + 1 >= Len(frames) /\ ~cmd[1].loop
                           THEN <<>> ELSE <<"sleep">>)
            /\ Swap(draw_frame_to_canvas(canvas, frames[frame_index + 1]))
            /\ status' = [status EXCEPT !.brightness = brightness',
                                        !.frame = Some(frame_index + 1)]
            /\ IF frame_index + 1 >= Len(frames)
               THEN IF cmd[1].loop
                    THEN frame_index' = 0 /\ pc' = "play"
                    ELSE frame_index' = frame_index + 1 /\ pc' = "play_finish"
               ELSE frame_index' = frame_index + 1 /\ pc' = "play"
            /\ UNCHANGED <<pending, frames, x, current_brightness>>
    /\ UNCHANGED <<closed, cmd, submitted, ws, aux>>

\* One pass of 'playback: the non-blocking check, then draw, swap, publish
\* the frame index and advance the cursor.
PlaybackTick ==
    /\ pc = "play"
    /\ recvKind' = "try_recv"
    /\ IF TryRecvOk /\ Preempts(Head(chan))
       THEN /\ chan' = Tail(chan)
            /\ pending' = Stash(Head(chan))
            /\ pc' = "recv"
            /\ DropLocals
            /\ ops' = <<"try_recv">>
            /\ UNCHANGED <<status, brightness, display, handled>>
       ELSE /\ IF TryRecvOk
               THEN /\ chan' = Tail(chan)
                    /\ handled' = Append(handled, Head(chan))
                    /\ brightness' = clamp_brightness(Head(chan).value)
               ELSE UNCHANGED <<chan, handled, brightness>>
            /\ ops' = <<"try_recv">>
                       \o (IF TryRecvOk THEN BrightnessSection \o StatusSection ELSE <<>>)
                       \o DrawSwap \o StatusSection
                       \o (IF frame_index + 1 >= Len(frames) /\ ~cmd[1].loop
                           THEN <<>> ELSE <<"sleep">>)
            /\ Swap(draw_frame_to_canvas(canvas, frames[frame_index + 1]))
            /\ status' = [status EXCEPT !.brightness = brightness',
                                        !.frame = Some(frame_index)]
            /\ IF frame_index + 1 >= Len(frames)
               THEN IF cmd[1].loop
                    THEN frame_index' = 0 /\ pc' = "play"
                    ELSE frame_index' = frame_index + 1 /\ pc' = "play_finish"
               ELSE frame_index' = frame_index + 1 /\ pc' = "play"
            /\ UNCHANGED <<pending, frames, x, current_brightness>>
    /\ UNCHANGED <<closed, cmd, submitted, ws, aux>>

\* (mutant) the last frame is left on the display
PlaybackFinishKeepsFrame ==
    /\ pc = "play_finish"
    /\ status' = set_idle(status)
    /\ pc' = "recv"
    /\ recvKind' = "none"
    /\ DropLocals
    /\ ops' = StatusSection
    /\ UNCHANGED <<chan, closed, pending, cmd, brightness, display, submitted, handled, ws,
                   aux>>

\* The end of a non-looping video: clear, swap, set_idle, break 'playback.
PlaybackFinish ==
    /\ pc = "play_finish"
    /\ Swap(Blank)
    /\ status' = set_idle(status)
    /\ pc' = "recv"
    /\ recvKind' = "none"
    /\ DropLocals
    /\ ops' = ClearSwap \o StatusSection
    /\ UNCHANGED <<chan, closed, pending, cmd, brightness, submitted, handled, ws, aux>>

\* (mutant) the width is counted in characters
text_width_chars(text) == Len(text)

\* text_width = (text.len() as i32) * 8
text_width(text) == Len(text) * GlyphWidth

\* (mutant) the text colour is not scaled
text_color_unscaled(c, b) == c

\* let text_color = Color::new(r, g, b).apply_brightness(current_brightness)
text_color(c, b) == apply_brightness(c, b)

\* RenderCommand::ScrollText, up to the entry of 'scroll
OnScrollText ==
    /\ TakeNext
    /\ NextCmd.kind = "ScrollText"
    /\ IF ~FontLoads(NextCmd.font)
       THEN Abandon
       ELSE /\ status' = [status EXCEPT !.state = "ScrollingText",
                                        !.current_media = Some(NextCmd.text),
                                        !.frame = None, !.total_frames = None]
            /\ x' = Cols
            /\ current_brightness' = brightness
            /\ pc' = "scroll"
            /\ UNCHANGED <<frames, frame_index>>
    /\ ops' = Took \o <<"load">>
               \o (IF FontLoads(NextCmd.font)
                   THEN StatusSection \o BrightnessSection ELSE <<>>)
    /\ UNCHANGED <<brightness, display>>

\* One pass of 'scroll: the non-blocking check, then clear, draw the text at
\* x, swap and move x.
ScrollTick ==
    /\ pc = "scroll"
    /\ recvKind' = "try_recv"
    /\ IF TryRecvOk /\ Preempts(Head(chan))
       THEN /\ chan' = Tail(chan)
            /\ pending' = Stash(Head(chan))
            /\ pc' = "recv"
            /\ DropLocals
            /\ ops' = <<"try_recv">>
            /\ UNCHANGED <<status, brightness, display, handled>>
       ELSE /\ IF TryRecvOk
               THEN /\ chan' = Tail(chan)
                    /\ handled' = Append(handled, Head(chan))
                    /\ current_brightness' = clamp_brightness(Head(chan).value)
                    /\ brightness' = current_brightness'
                    /\ status' = [status EXCEPT !.brightness = current_brightness']
               ELSE UNCHANGED <<chan, handled, current_brightness, brightness, status>>
            /\ Swap(draw_text(Blank, text_width(cmd[1].text), x,
                              text_color(cmd[1].color, current_brightness')))
            /\ x' = IF x - 1 < -text_width(cmd[1].text) THEN Cols ELSE x - 1
            /\ ops' = <<"try_recv">>
                       \o (IF TryRecvOk THEN BrightnessSection \o StatusSection ELSE <<>>)
                       \o <<"clear">> \o DrawSwap \o <<"sleep">>
            /\ UNCHANGED <<pc, pending, frames, frame_index>>
    /\ UNCHANGED <<closed, cmd, submitted, ws, aux>>

\* ------------------------------------------------------- specifications
\* The commands the request handlers send in the model.
Pool ==
    { Clear, Stop, SetBrightness(40), SetBrightness(150),
      ShowImage("ok.png"),
      ShowFrame(RawData(frame_byte_count, 5)), ShowFrame(RawData(frame_byte_count + 1, 5)),
      ShowFrame(RawData(frame_byte_count - 1, 5)),
      PlayVideo("clip3", FALSE), PlayVideo("clip3", TRUE),
      ScrollText("A", "6x10", <<255, 128, 3>>) }

Engine ==
    \/ HwInit(TRUE)
    \/ HwInit(FALSE)
    \/ ShutDown
    \/ OnClear
    \/ OnStop
    \/ OnSetBrightness
    \/ OnShowImage
    \/ ShowImageLoad
    \/ OnShowFrame
    \/ OnPlayVideo
    \/ PlaybackTick
    \/ PlaybackFinish
    \/ OnScrollText
    \/ ScrollTick

Next ==
    \/ \E c \in Pool : Send(c)
    \/ DropSenders
    \/ Engine

Spec == Init /\ [][Next]_vars

\* Text scrolling alone: the handlers send only ScrollText, SetBrightness,
\* Stop and Clear.
ScrollPool ==
    { Clear, Stop, SetBrightness(40), SetBrightness(150),
      ScrollText("A", "6x10", <<255, 128, 3>>), ScrollText("BC", "6x10", <<10, 200, 77>>) }

ScrollEngine ==
    \/ HwInit(TRUE)
    \/ HwInit(FALSE)
    \/ ShutDown
    \/ OnClear
    \/ OnStop
    \/ OnSetBrightness
    \/ OnScrollText
    \/ ScrollTick

ScrollNext ==
    \/ \E c \in ScrollPool : Send(c)
    \/ DropSenders
    \/ ScrollEngine

\* The render thread is an OS thread of its own: whenever it has a step to
\* take (a command to receive, a tick to run) it eventually takes one.
ScrollSpec == Init /\ [][ScrollNext]_vars /\ WF_vars(ScrollEngine)

\* Commands that fail: a missing image, directories without a usable frame, a
\* directory of which some frames decode, a font that does not exist, a raw
\* frame of the wrong size.
MediaPool ==
    { Stop, ShowImage("ok.png"), ShowImage("missing.png"),
      PlayVideo("clip3", FALSE), PlayVideo("partial", TRUE), PlayVideo("empty", FALSE),
      PlayVideo("nodir", TRUE), PlayVideo("allbad", FALSE),
      ScrollText("A", "6x10", <<255, 128, 3>>), ScrollText("A", "nofont", <<255, 128, 3>>),
      ShowFrame(RawData(frame_byte_count + 1, 5)) }

MediaEngine ==
    \/ HwInit(TRUE)
    \/ HwInit(FALSE)
    \/ ShutDown
    \/ OnStop
    \/ OnShowImage
    \/ ShowImageLoad
    \/ OnShowFrame
    \/ OnPlayVideo
    \/ PlaybackTick
    \/ PlaybackFinish
    \/ OnScrollText
    \/ ScrollTick

MediaNext ==
    \/ \E c \in MediaPool : Send(c)
    \/ DropSenders
    \/ MediaEngine

MediaSpec == Init /\ [][MediaNext]_vars

\* Videos whose frames are smaller than the panel, after an image or a video
\* that fills it.
FrameSizePool ==
    { Stop, ShowImage("ok.png"), PlayVideo("small", TRUE), PlayVideo("small", FALSE),
      PlayVideo("clip3", FALSE) }

FrameSizeEngine ==
    \/ HwInit(TRUE)
    \/ HwInit(FALSE)
    \/ ShutDown
    \/ OnStop
    \/ OnShowImage
    \/ ShowImageLoad
    \/ OnPlayVideo
    \/ PlaybackTick
    \/ PlaybackFinish

FrameSizeNext ==
    \/ \E c \in FrameSizePool : Send(c)
    \/ DropSenders
    \/ FrameSizeEngine

FrameSizeSpec == Init /\ [][FrameSizeNext]_vars

\* ------------------------------------------------ the WebSocket handler
\* (mutant) the handler lights the panel itself when a client connects
WsConnectDraws ==
    /\ ws < MaxConn
    /\ ws' = ws + 1
    /\ status' = [status EXCEPT !.state = "Streaming",
                                !.current_media = Some("websocket"),
                                !.frame = None, !.total_frames = None]
    /\ visible' = [p \in Pos |-> <<255, 255, 255>>]
    /\ UNCHANGED <<pc, chan, closed, pending, cmd, brightness, canvas,
                   frames, frame_index, x, current_brightness, submitted, handled,
                   recvKind, ops, aux>>

\* handle_stream_socket, from the upgrade to the first socket.recv()
WsConnect ==
    /\ ws < MaxConn
    /\ ws' = ws + 1
    /\ status' = [status EXCEPT !.state = "Streaming",
                                !.current_media = Some("websocket"),
                                !.frame = None, !.total_frames = None]
    /\ UNCHANGED <<pc, chan, closed, pending, cmd, brightness, canvas, visible,
                   frames, frame_index, x, current_brightness, submitted, handled,
                   recvKind, ops, aux>>

\* handle_stream_socket, after the while let loop is left
WsDisconnect ==
    /\ ws > 0
    /\ ws' = ws - 1
    /\ status' = set_idle(status)
    /\ UNCHANGED <<pc, chan, closed, pending, cmd, brightness, canvas, visible,
                   frames, frame_index, x, current_brightness, submitted, handled,
                   recvKind, ops, aux>>

\* The commands sent while stream clients come and go.
WsPool ==
    { Clear, Stop, SetBrightness(40), ShowImage("ok.png"),
      ShowFrame(RawData(frame_byte_count, 5)),
      PlayVideo("clip3", FALSE), ScrollText("A", "6x10", <<255, 128, 3>>) }

WsNext ==
    \/ \E c \in WsPool : Send(c)
    \/ DropSenders
    \/ Engine
    \/ WsConnect
    \/ WsDisconnect

WsSpec == Init /\ [][WsNext]_vars

\* ------------------------------------------------ the raw-frame producers
\* The bodies of frame requests and of binary stream messages.
Bodies ==
    { RawData(frame_byte_count, 5), RawData(frame_byte_count, 9),
      RawData(frame_byte_count + 1, 5), RawData(frame_byte_count - 1, 5), <<>> }

\* (mutant) the producers send whatever they receive
body_len_unchecked(data) == TRUE

\* body.len() != expected / data.len() != expected, negated
body_len_ok(data) == Len(data) = frame_byte_count

\* The request or message just handled, for the record.
Replied(by, len, outcome) ==
    reply' = [n |-> reply.n + 1, by |-> by, len |-> len, outcome |-> outcome]

\* command_tx.send(RenderCommand::ShowFrame(data.to_vec())), the receiver alive
Enqueue(c) ==
    /\ chan' = Append(chan, c)
    /\ submitted' = Append(submitted, c)

\* POST /api/v1/display/frame
post_display_frame(body) ==
    /\ ~closed
    /\ reply.n < MaxReq
    /\ IF ~body_len_ok(body)
       THEN /\ Replied("http", Len(body), "400")
            /\ UNCHANGED <<chan, submitted>>
       ELSE IF pc = "done"
       THEN /\ Replied("http", Len(body), "500")
            /\ UNCHANGED <<chan, submitted>>
       ELSE /\ Replied("http", Len(body), "200")
            /\ Enqueue(ShowFrame(body))
    /\ UNCHANGED <<pc, closed, pending, cmd, status, brightness, canvas, visible,
                   frames, frame_index, x, current_brightness, handled, recvKind, ws,
                   ops, calc>>

\* What socket.recv().await yields: a message, an error, or the end of the
\* stream.
WsMsg(type, data) == [type |-> type, data |-> data]

WsMessages ==
    { WsMsg("Binary", b) : b \in Bodies }
      \cup { WsMsg(t, <<>>) : t \in {"Text", "Close", "Error", "End"} }

\* (mutant) the handler returns without touching the status
WsExitKeepsStatus ==
    /\ ws' = ws - 1
    /\ status' = status

\* break, then state.status.lock().unwrap().set_idle()
WsExit ==
    /\ ws' = ws - 1
    /\ status' = set_idle(status)

\* One pass of the while let loop of handle_stream_socket.
WsRecv(msg) ==
    /\ ws > 0
    /\ ~closed
    /\ reply.n < MaxReq
    /\ CASE msg.type = "Binary" ->
              IF ~body_len_ok(msg.data)
              THEN /\ Replied("ws_binary", Len(msg.data), "skipped")
                   /\ UNCHANGED <<chan, submitted, ws, status>>
              ELSE IF pc = "done"
              THEN /\ Replied("ws_binary", Len(msg.data), "gone")
                   /\ WsExit
                   /\ UNCHANGED <<chan, submitted>>
              ELSE /\ Replied("ws_binary", Len(msg.data), "sent")
                   /\ Enqueue(ShowFrame(msg.data))
                   /\ UNCHANGED <<ws, status>>
         [] msg.type \in {"Close", "Error", "End"} ->
              /\ Replied(msg.type, 0, "exit")
              /\ WsExit
              /\ UNCHANGED <<chan, submitted>>
         [] OTHER ->
              /\ Replied(msg.type, 0, "ignored")
              /\ UNCHANGED <<chan, submitted, ws, status>>
    /\ UNCHANGED <<pc, closed, pending, cmd, brightness, canvas, visible,
                   frames, frame_index, x, current_brightness, handled, recvKind,
                   ops, calc>>

StreamEngine ==
    \/ HwInit(TRUE)
    \/ HwInit(FALSE)
    \/ ShutDown
    \/ OnShowFrame

\* The server stops once no handler is running: the senders are dropped.
StreamNext ==
    \/ \E b \in Bodies : post_display_frame(b)
    \/ ~closed /\ WsConnect
    \/ \E m \in WsMessages : WsRecv(m)
    \/ ws = 0 /\ DropSenders
    \/ StreamEngine

StreamSpec == Init /\ [][StreamNext]_vars

\* ------------------------------------------------------- the pure functions
\* One call of a function of lib.rs, on an input drawn from the sets below.
rest == <<pc, chan, closed, pending, cmd, status, brightness, canvas, visible,
          frames, frame_index, x, current_brightness, submitted, handled, recvKind,
          ws, ops, reply>>

Call(fn, arg, out) ==
    /\ calc' = [fn |-> fn, arg |-> arg, out |-> out]
    /\ UNCHANGED rest

\* Colours: every channel value occurs, and the colours of the unit tests.
Colors ==
    { <<v, 255 - v, (v * 77) % 256>> : v \in 0 .. 255 }
      \cup { <<100, 200, 50>>, <<200, 100, 50>>, <<255, 255, 255>> }

\* brightness: u8
Bytes == 0 .. 255

\* hue: u16
Hues == 0 .. 65535

\* rows, cols: u32
PanelDims ==
    { Limbs(n, 4) : n \in {1, 32, 64, 128, 4096, 37838, 46341, 65535, 65536, 2147483647} }

CallApplyBrightness(c, b) == Call("apply_brightness", <<c, b>>, apply_brightness(c, b))

CallFromHue(hue) == Call("from_hue", <<hue>>, from_hue(hue))

CallPixelCount(rows, cols, build) ==
    Call("pixel_count", <<rows, cols, build>>, PanelConfig_pixel_count(rows, cols, build))

CallFrameByteCount(rows, cols, build) ==
    Call("frame_byte_count", <<rows, cols, build>>,
         PanelConfig_frame_byte_count(rows, cols, build))

\* One call in a behaviour.
PureNext ==
    /\ calc = NoCall
    /\ \/ \E c \in Colors, b \in Bytes : CallApplyBrightness(c, b)
       \/ \E hue \in Hues : CallFromHue(hue)
       \/ \E rows \in PanelDims, cols \in PanelDims, build \in Builds :
             CallPixelCount(rows, cols, build)
       \/ \E rows \in PanelDims, cols \in PanelDims, build \in Builds :
             CallFrameByteCount(rows, cols, build)

PureSpec == Init /\ [][PureNext]_vars

\* ------------------------------------------------------ directory scans
\* One scan of a directory, on a listing drawn from the sets below: at most
\* MaxEntries entries of a pool, in any order read_dir may return them.
MaxEntries == 3

Listings(pool) ==
    { l \in UNION { [1 .. n -> pool] : n \in 0 .. MaxEntries } :
        \A i \in DOMAIN l, j \in DOMAIN l : i # j => l[i] # l[j] }

Scans(pool) ==
    { [ok |-> TRUE, entries |-> l] : l \in Listings(pool) }
      \cup { [ok |-> FALSE, entries |-> <<>>] }

\* Entries of a video directory: frames, a text file, a file without
\* extension, an upper-case extension.
FramePool ==
    { Entry(<<2>>, "png", 2, Cols, Rows), Entry(<<1, 0>>, "jpg", 1, Cols, Rows),
      Entry(<<1>>, "jpeg", 3, Cols, Rows), Entry(<<9>>, "txt", 0, 0, 0),
      Entry(<<3>>, "", 0, 0, 0), Entry(<<0>>, "PNG", 4, Cols, Rows) }

CallLoadFramePaths(d) == Call("load_frame_paths", <<d>>, frame_paths(d))

\* media.rs: file names are sequences of character codes ('.' is 46).
ext_png == <<112, 110, 103>>
ext_jpg == <<106, 112, 103>>
ext_jpeg == <<106, 112, 101, 103>>
ext_gif == <<103, 105, 102>>
ext_bmp == <<98, 109, 112>>
ext_bdf == <<98, 100, 102>>
ext_txt == <<116, 120, 116>>

\* "<stem>.<ext>"
FileName(stem, ext) == stem \o <<46>> \o ext

LastDot(name) ==
    LET I == { i \in 1 .. Len(name) : name[i] = 46 }
    IN  IF I = {} THEN 0 ELSE CHOOSE i \in I : \A j \in I : j <= i

\* Path::extension: what follows the last '.', unless the name has none or
\* only a leading one.
Path_extension(name) ==
    IF LastDot(name) <= 1 THEN None
    ELSE Some(SubSeq(name, LastDot(name) + 1, Len(name)))

\* Path::file_stem: the name without its extension.
Path_file_stem(name) ==
    IF LastDot(name) <= 1 THEN name ELSE SubSeq(name, 1, LastDot(name) - 1)

is_image(name) ==
    Path_extension(name) \in { Some(e) : e \in {ext_png, ext_jpg, ext_jpeg, ext_gif, ext_bmp} }

is_frame(name) ==
    Path_extension(name) \in { Some(e) : e \in {ext_png, ext_jpg, ext_jpeg} }

is_bdf(name) == Path_extension(name) = Some(ext_bdf)

\* A directory entry: kind is "file" or "dir"; sub is the listing of a
\* directory (the names only), or what read_dir fails on.
File(name, size) ==
    [name |-> name, kind |-> "file", size |-> size, sub |-> [ok |-> FALSE, names |-> <<>>]]

Dir(name, ok, names) ==
    [name |-> name, kind |-> "dir", size |-> 0, sub |-> [ok |-> ok, names |-> names]]

\* (mutant) directories are listed as well
list_images_any_kind(d) ==
    IF ~d.ok THEN <<>>
    ELSE LET kept == SelectSeq(d.entries, LAMBDA e : is_image(e.name))
             entries == [i \in 1 .. Len(kept) |->
                            [name |-> kept[i].name, path |-> <<"images", kept[i].name>>,
                             size |-> kept[i].size]]
         IN  SortSeq(entries, LAMBDA a, b : LexLess(a.name, b.name))

\* list_images on the listing d of <media_dir>/images
list_images(d) ==
    IF ~d.ok THEN <<>>
    ELSE LET kept == SelectSeq(d.entries, LAMBDA e : e.kind = "file" /\ is_image(e.name))
             entries == [i \in 1 .. Len(kept) |->
                            [name |-> kept[i].name, path |-> <<"images", kept[i].name>>,
                             size |-> kept[i].size]]
         IN  SortSeq(entries, LAMBDA a, b : LexLess(a.name, b.name))

\* The frame images counted in one sub-directory of videos.
frame_count(sub) ==
    IF ~sub.ok THEN 0 ELSE Len(SelectSeq(sub.names, is_frame))

\* list_videos on the listing d of <media_dir>/videos
list_videos(d) ==
    IF ~d.ok THEN <<>>
    ELSE LET kept == SelectSeq(d.entries,
                               LAMBDA e : e.kind = "dir" /\ frame_count(e.sub) > 0)
             entries == [i \in 1 .. Len(kept) |->
                            [name |-> kept[i].name, path |-> <<"videos", kept[i].name>>,
                             frame_count |-> frame_count(kept[i].sub)]]
         IN  SortSeq(entries, LAMBDA a, b : LexLess(a.name, b.name))

\* list_fonts on the listing d of <media_dir>/fonts/bdf
list_fonts(d) ==
    IF ~d.ok THEN <<>>
    ELSE LET kept == SelectSeq(d.entries, LAMBDA e : e.kind = "file" /\ is_bdf(e.name))
             fonts == [i \in 1 .. Len(kept) |-> Path_file_stem(kept[i].name)]
         IN  SortSeq(fonts, LexLess)

\* images: b.png a.jpg a-b.bmp c.gif d.jpeg e.txt, f (no extension), the
\* directory g.png, h.PNG, and the hidden file .png
ImagePool ==
    { File(FileName(<<98>>, ext_png), 10), File(FileName(<<97>>, ext_jpg), 20),
      File(FileName(<<97, 45, 98>>, ext_bmp), 30), File(FileName(<<99>>, ext_gif), 0),
      File(FileName(<<100>>, ext_jpeg), 40), File(FileName(<<101>>, ext_txt), 50),
      File(<<102>>, 60), Dir(FileName(<<103>>, ext_png), TRUE, <<>>),
      File(FileName(<<104>>, <<80, 78, 71>>), 70), File(FileName(<<>>, ext_png), 80) }

\* videos: v (x.png y.txt z.jpg), u (n.txt), the file w.png, t (q.jpeg),
\* s (unreadable), r (empty)
VideoPool ==
    { Dir(<<118>>, TRUE, << FileName(<<120>>, ext_png), FileName(<<121>>, ext_txt),
                            FileName(<<122>>, ext_jpg) >>),
      Dir(<<117>>, TRUE, << FileName(<<110>>, ext_txt) >>),
      File(FileName(<<119>>, ext_png), 10),
      Dir(<<116>>, TRUE, << FileName(<<113>>, ext_jpeg) >>),
      Dir(<<115>>, FALSE, <<>>),
      Dir(<<114>>, TRUE, <<>>) }

\* fonts/bdf: 6x13.bdf 9x18.bdf 10.x.bdf a.txt, the directory d.bdf, e, f.BDF
FontPool ==
    { File(FileName(<<54, 120, 49, 51>>, ext_bdf), 10), File(FileName(<<57, 120, 49, 56>>, ext_bdf), 20),
      File(FileName(<<49, 48, 46, 120>>, ext_bdf), 30), File(FileName(<<97>>, ext_txt), 40),
      Dir(FileName(<<100>>, ext_bdf), TRUE, <<>>), File(<<101>>, 50),
      File(FileName(<<102>>, <<66, 68, 70>>), 60) }

CallListImages(d) == Call("list_images", <<d>>, list_images(d))

CallListVideos(d) == Call("list_videos", <<d>>, list_videos(d))

CallListFonts(d) == Call("list_fonts", <<d>>, list_fonts(d))

\* One scan in a behaviour.
ListNext ==
    /\ calc = NoCall
    /\ \/ \E d \in Scans(FramePool) : CallLoadFramePaths(d)
       \/ \E d \in Scans(ImagePool) : CallListImages(d)
       \/ \E d \in Scans(VideoPool) : CallListVideos(d)
       \/ \E d \in Scans(FontPool) : CallListFonts(d)

ListSpec == Init /\ [][ListNext]_vars

\* ================================================================ claims
Last(s) == s[Len(s)]
InLoop == pc \in {"play", "scroll"}
\* A step of a tick whose try_recv returns a command.
TickReceives == InLoop /\ chan # <<>> /\ chan' = Tail(chan)
\* A step that enters the main match with a command.
Dispatches == pc = "recv" /\ handled' # handled

\* ---- C1: the commands the engine has consumed (dispatched or absorbed, then
\* the stashed one) followed by those still in the channel are exactly the
\* commands submitted, in submission order: nothing is dropped, duplicated,
\* merged or reordered.
Consumed == handled \o pending
C1_ConsumedIsPrefix ==
    /\ Len(Consumed) <= Len(submitted)
    /\ Consumed = SubSeq(submitted, 1, Len(Consumed))
    /\ chan = SubSeq(submitted, Len(Consumed) + 1, Len(submitted))

C1_Witness ==
    /\ Len(handled) = 2
    /\ handled[1].kind = "PlayVideo"
    /\ handled[2].kind = "SetBrightness"
    /\ pending # None
    /\ pending[1].kind = "Clear"

\* ---- C2: a tick whose check receives a command other than SetBrightness
\* ends the operation there: nothing is drawn or swapped, the status is not
\* touched, the command is stashed, and the stashed command is what the
\* main match is entered with next.
C2_PreemptionEndsTheRun ==
    /\ [][(TickReceives /\ Head(chan).kind # "SetBrightness")
            => /\ pc' = "recv"
               /\ pending' = Some(Head(chan))
               /\ display' = display
               /\ status' = status
               /\ handled' = handled]_vars
    /\ [][(pc = "recv" /\ pending # None)
            => /\ pc' # "done"
               /\ (handled' # handled => /\ handled' = Append(handled, pending[1])
                                         /\ cmd' = pending
                                         /\ pending' = None)]_vars

\* Playback of the three-frame clip was interrupted after frame index 1 was
\* shown (frame index 2 never was).
C2_Witness ==
    /\ pc = "recv"
    /\ pending # None
    /\ pending[1].kind = "Stop"
    /\ cmd # None
    /\ cmd[1].kind = "PlayVideo"
    /\ status.state = "PlayingVideo"
    /\ status.frame = Some(1)

\* ---- C3: the blocking receive is made only with an empty pending slot and
\* outside the loops; a stashed command is dispatched with no receive; the
\* slot is empty while a loop runs and never holds a SetBrightness.
C3_PendingSlot ==
    /\ [](Len(pending) <= 1)
    /\ [](pc # "recv" => pending = None)
    /\ [](pending # None => pending[1].kind # "SetBrightness")
    /\ [][recvKind' = "recv" /\ (handled' # handled \/ pc' # pc)
            => pending = None /\ pc = "recv"]_vars
    /\ [][(Dispatches /\ pending # None)
            => chan' = chan /\ recvKind' = "none" /\ cmd' = pending]_vars

C3_Witness ==
    /\ pc = "scroll"
    /\ recvKind = "none"
    /\ Len(handled) = 2
    /\ handled[1].kind = "PlayVideo"
    /\ chan # <<>>

\* ---- C4 (as stated): a command other than SetBrightness waiting in the
\* channel interrupts the running loop at the very next tick's check,
\* whatever is queued in front of it.
HasInterrupter(q) == \E i \in DOMAIN q : q[i].kind # "SetBrightness"
C4_NextTickPreempts ==
    [][(TickReceives /\ HasInterrupter(chan)) => pc' = "recv"]_vars

\* The number of SetBrightness commands at the front of a queue.
RECURSIVE LeadingBrightness(_)
LeadingBrightness(q) ==
    IF q = <<>> \/ Head(q).kind # "SetBrightness" THEN 0
    ELSE 1 + LeadingBrightness(Tail(q))

\* ---- C4 (amended): a tick's check takes exactly one command from the
\* channel. A command other than SetBrightness interrupts the loop at the
\* check that receives it, which is the next check only when it is at the
\* head of the channel; every SetBrightness queued in front of it is absorbed
\* by one tick of its own (one more frame or scroll step is drawn for each).
C4_PreemptsWhenAtHead ==
    [][(TickReceives /\ HasInterrupter(chan))
         => IF LeadingBrightness(chan) = 0
            THEN pc' = "recv" /\ pending' = Some(Head(chan)) /\ display' = display
            ELSE /\ pc' \in {pc, "play_finish"}
                 /\ pending' = None
                 /\ LeadingBrightness(chan') = LeadingBrightness(chan) - 1
                 /\ HasInterrupter(chan')
                 /\ handled' = Append(handled, Head(chan))]_vars

\* A SetBrightness was absorbed by a tick and a Stop is still waiting.
C4_Witness ==
    /\ pc = "scroll"
    /\ recvKind = "try_recv"
    /\ Len(handled) = 2
    /\ handled[2].kind = "SetBrightness"
    /\ chan # <<>>
    /\ Head(chan).kind = "Stop"

\* The frame files of a directory that decode, in path order, as decoded.
RECURSIVE Decoded(_)
Decoded(paths) ==
    IF paths = <<>> THEN <<>>
    ELSE (IF load_frame(Head(paths)).ok THEN <<load_frame(Head(paths)).img>> ELSE <<>>)
         \o Decoded(Tail(paths))

DecodedFrames(dir) == Decoded(load_frame_paths(dir).paths)

\* The frame the last PlayVideo tick drew (1-based).
LastShown == IF frame_index = 0 THEN Len(frames) ELSE frame_index

Min100(v) == IF v < 100 THEN v ELSE 100

\* ---- C5: every frame a PlayVideo run shows is the decoded frame scaled by
\* the brightness read when the run started; a SetBrightness absorbed by a
\* tick updates the shared setting and status.brightness, does not interrupt
\* the run and leaves the run's frames and its brightness alone; a run starts
\* with the shared setting of that moment.
C5_VideoBrightnessFixedPerRun ==
    /\ []((pc \in {"play", "play_finish"} /\ recvKind = "try_recv")
            => LET raw == DecodedFrames(cmd[1].path)[LastShown]
               IN  \A p \in Pos :
                     (p[1] < raw.w /\ p[2] < raw.h)
                        => visible[p] = apply_brightness(raw.px[p], current_brightness))
    /\ [][(pc = "recv" /\ pc' = "play") => current_brightness' = brightness]_vars
    /\ [][(pc = "play" /\ TickReceives /\ Head(chan).kind = "SetBrightness")
            => /\ pc' \in {"play", "play_finish"}
               /\ current_brightness' = current_brightness
               /\ frames' = frames
               /\ brightness' = Min100(Head(chan).value)
               /\ status'.brightness = Min100(Head(chan).value)]_vars

\* A run started at brightness 40 goes on after SetBrightness(150).
C5_Witness ==
    /\ pc = "play"
    /\ recvKind = "try_recv"
    /\ current_brightness = 40
    /\ brightness = 100
    /\ status.brightness = 100

\* The position the last ScrollText tick drew the text at.
LastX == IF x = Cols THEN -text_width(cmd[1].text) ELSE x + 1

\* ---- C6: a SetBrightness(v) absorbed by a ScrollText tick does not end the
\* scroll; the text of that tick and of the following ticks is drawn in the
\* colour scaled by min(v, 100), which is also the shared setting and
\* status.brightness.
C6_ScrollBrightnessLive ==
    /\ []((pc = "scroll" /\ recvKind = "try_recv")
            => /\ visible = draw_text(Blank, text_width(cmd[1].text), LastX,
                                      apply_brightness(cmd[1].color, brightness))
               /\ current_brightness = brightness
               /\ status.brightness = brightness)
    /\ [][(pc = "scroll" /\ TickReceives /\ Head(chan).kind = "SetBrightness")
            => /\ pc' = "scroll"
               /\ brightness' = Min100(Head(chan).value)
               /\ status'.brightness = Min100(Head(chan).value)
               /\ visible' = draw_text(Blank, text_width(cmd[1].text), x,
                                apply_brightness(cmd[1].color, Min100(Head(chan).value)))]_vars

C6_Witness ==
    /\ pc = "scroll"
    /\ recvKind = "try_recv"
    /\ Last(handled).kind = "SetBrightness"
    /\ brightness = 40
    /\ visible # Blank

\* ---- C7: wherever a SetBrightness(v) is handled (main match, PlayVideo
\* tick, ScrollText tick) the shared setting and status.brightness become
\* min(v, 100); both stay within 0..100.
C7_BrightnessClamped ==
    /\ [](status.brightness \in 0 .. 100 /\ brightness \in 0 .. 100)
    /\ [][(handled' # handled /\ Last(handled').kind = "SetBrightness")
            => /\ brightness' = Min100(Last(handled').value)
               /\ status'.brightness = Min100(Last(handled').value)]_vars

\* SetBrightness(150) absorbed during playback published 100.
C7_Witness ==
    /\ pc = "play"
    /\ handled # <<>>
    /\ Last(handled) = SetBrightness(150)
    /\ status.brightness = 100

\* ---- C8: a PlayVideo with loop=false over N loaded frames publishes
\* PlayingVideo with total_frames = N and frame = 0; every tick that is not
\* interrupted shows the next frame and then publishes its index, so
\* status.frame goes 0, 1, ..., N-1; after frame N-1 the display is blanked,
\* the status is Idle with empty media fields and the engine is back at the
\* blocking receive.
C8_NonLoopingVideoRuns ==
    /\ [][(pc = "recv" /\ pc' = "play")
            => status' = [state |-> "PlayingVideo",
                          current_media |-> Some(NextCmd.path),
                          frame |-> Some(0),
                          total_frames |-> Some(Len(DecodedFrames(NextCmd.path))),
                          brightness |-> status.brightness]]_vars
    /\ []((pc = "play" /\ ~cmd[1].loop)
            => /\ status.state = "PlayingVideo"
               /\ status.total_frames = Some(Len(DecodedFrames(cmd[1].path)))
               /\ frame_index < Len(DecodedFrames(cmd[1].path))
               /\ status.frame = Some(IF frame_index = 0 THEN 0 ELSE frame_index - 1))
    /\ [][(pc = "play" /\ ~cmd[1].loop /\ pc' # "recv" /\ frame_index' # frame_index)
            => /\ frame_index' = frame_index + 1
               /\ status'.frame = Some(frame_index)
               /\ status'.state = "PlayingVideo"
               /\ LET raw == DecodedFrames(cmd[1].path)[frame_index + 1]
                  IN  \A p \in Pos :
                        (p[1] < raw.w /\ p[2] < raw.h)
                           => visible'[p] = apply_brightness(raw.px[p], current_brightness)
               /\ pc' = IF frame_index + 1 = Len(DecodedFrames(cmd[1].path))
                        THEN "play_finish" ELSE "play"]_vars
    /\ [](pc = "play_finish"
            => /\ frame_index = Len(DecodedFrames(cmd[1].path))
               /\ status.frame = Some(frame_index - 1)
               /\ status.state = "PlayingVideo")
    /\ [][(pc = "play_finish" /\ pc' # pc)
            => /\ pc' = "recv"
               /\ pending' = None
               /\ visible' = Blank
               /\ status' = [state |-> "Idle", current_media |-> None, frame |-> None,
                             total_frames |-> None, brightness |-> status.brightness]]_vars

\* The three-frame clip has just shown its last frame (index 2 of 3).
C8_Witness ==
    /\ pc = "play_finish"
    /\ status.total_frames = Some(3)
    /\ status.frame = Some(2)
    /\ handled = << PlayVideo("clip3", FALSE) >>
    /\ visible # Blank

C10_WrongSizeFrameRejected ==
    [][(Dispatches /\ NextCmd.kind = "ShowFrame" /\ Len(NextCmd.data) # Rows * Cols * 3)
         => /\ display' = display
            /\ status' = status
            /\ brightness' = brightness
            /\ pending' = None
            /\ pc' = "recv"]_vars

\* A good frame is showing; a buffer one byte short and one a byte too long
\* were dispatched after it.
C10_Witness ==
    /\ Len(handled) = 3
    /\ handled[1].kind = "ShowFrame"
    /\ Len(handled[1].data) = Rows * Cols * 3
    /\ Len(handled[2].data) = Rows * Cols * 3 - 1
    /\ Len(handled[3].data) = Rows * Cols * 3 + 1
    /\ visible = draw_raw_frame(Blank, handled[1].data, InitialBrightness)
    /\ visible # Blank

\* ---- C11: a ShowFrame, accepted or rejected, changes no status field (and
\* not the brightness setting); an accepted one makes the frame's pixels,
\* scaled by the brightness, the visible buffer.
C11_ShowFrameKeepsStatus ==
    [][(Dispatches /\ NextCmd.kind = "ShowFrame")
         => /\ status' = status
            /\ brightness' = brightness
            /\ pc' = "recv"
            /\ (Len(NextCmd.data) = Rows * Cols * 3
                  => visible' = draw_raw_frame(Blank, NextCmd.data, brightness))]_vars

\* A frame was accepted after it interrupted a video: the status is untouched.
C11_Witness ==
    /\ pc = "recv"
    /\ Len(handled) = 2
    /\ handled[1].kind = "PlayVideo"
    /\ handled[2].kind = "ShowFrame"
    /\ Len(handled[2].data) = Rows * Cols * 3
    /\ visible = draw_raw_frame(Blank, handled[2].data, brightness)
    /\ status.state = "PlayingVideo"

IdleStatus(b) ==
    [state |-> "Idle", current_media |-> None, frame |-> None, total_frames |-> None,
     brightness |-> b]

\* ---- C12: a dispatched Clear leaves the visible buffer entirely off and the
\* status Idle with current_media, frame and total_frames empty; the
\* brightness is what it was.
C12_ClearBlanksAndIdles ==
    [][(Dispatches /\ NextCmd.kind = "Clear")
         => /\ \A p \in Pos : visible'[p] = <<0, 0, 0>>
            /\ canvas' = visible
            /\ status' = IdleStatus(status.brightness)
            /\ brightness' = brightness
            /\ pc' = "recv"]_vars

\* Clear interrupted a video that had shown a frame at brightness 40.
C12_Witness ==
    /\ pc = "recv"
    /\ Len(handled) = 3
    /\ handled[2].kind = "PlayVideo"
    /\ handled[3].kind = "Clear"
    /\ visible = Blank
    /\ canvas # Blank
    /\ status = IdleStatus(40)

\* ---- C13: a dispatched Stop sets the status Idle with empty media fields
\* and leaves both buffers as they are, also when it interrupted a loop.
C13_StopKeepsPixels ==
    [][(Dispatches /\ NextCmd.kind = "Stop")
         => /\ display' = display
            /\ status' = IdleStatus(status.brightness)
            /\ brightness' = brightness
            /\ pc' = "recv"]_vars

\* Stop interrupted a scroll whose text is still on the display.
C13_Witness ==
    /\ pc = "recv"
    /\ Len(handled) = 2
    /\ handled[1].kind = "ScrollText"
    /\ handled[2].kind = "Stop"
    /\ visible # Blank
    /\ status.state = "Idle"
    /\ status.current_media = None

\* ---- C14: a SetBrightness dispatched by the main match draws and swaps
\* nothing and changes no status field but brightness.
C14_SetBrightnessDrawsNothing ==
    [][(Dispatches /\ NextCmd.kind = "SetBrightness")
         => /\ display' = display
            /\ status' = [status EXCEPT !.brightness = Min100(NextCmd.value)]
            /\ pc' = "recv"]_vars

\* The image drawn at brightness 75 is still shown so after SetBrightness(40).
C14_Witness ==
    /\ pc = "recv"
    /\ Len(handled) = 2
    /\ handled[1] = ShowImage("ok.png")
    /\ handled[2] = SetBrightness(40)
    /\ status.state = "ShowingImage"
    /\ status.brightness = 40
    /\ visible = draw_frame_with_brightness(Blank, load_and_resize_image("ok.png").img,
                                            InitialBrightness)

\* ---- C15: when the image of a ShowImage cannot be loaded nothing is drawn
\* or swapped, the status ends Idle with empty media fields whatever it was,
\* and the engine is back at the top of its loop.
C15_FailedImageGoesIdle ==
    /\ [][(Dispatches /\ NextCmd.kind = "ShowImage") => display' = display]_vars
    /\ [][(pc = "image_load" /\ pc' # pc /\ ~load_and_resize_image(cmd[1].path).ok)
            => /\ display' = display
               /\ status' = IdleStatus(status.brightness)
               /\ pending' = None
               /\ pc' = "recv"]_vars

\* A missing image interrupted a video: the frame shown stays, status is Idle.
C15_Witness ==
    /\ pc = "recv"
    /\ Len(handled) = 2
    /\ handled[1].kind = "PlayVideo"
    /\ handled[2] = ShowImage("missing.png")
    /\ status = IdleStatus(InitialBrightness)
    /\ visible # Blank

\* The picture of an image file as it appears on the panel at brightness b.
Shown(path, b) ==
    [p \in Pos |-> apply_brightness(load_and_resize_image(path).img.px[p], b)]

\* ---- C16 (as stated): ShowingImage is published only once the image is
\* decoded, drawn and swapped: whenever the status is set to ShowingImage
\* the image named by current_media is what the panel shows.
C16_PublishedOnlyWhenVisible ==
    [][(status'.state = "ShowingImage" /\ status' # status)
         => /\ load_and_resize_image(status'.current_media[1]).ok
            /\ visible' = Shown(status'.current_media[1], brightness)]_vars

\* ---- C16 (amended): ShowImage publishes ShowingImage with the media label
\* before the image is loaded, drawing nothing yet; a successful load then
\* draws and swaps the image and leaves the status as published, a failed
\* load reverts the status to Idle. Once the command is completed,
\* ShowingImage is published only with the image visible.
C16_PublishedBeforeLoad ==
    /\ [][(Dispatches /\ NextCmd.kind = "ShowImage")
            => /\ status' = [state |-> "ShowingImage",
                             current_media |-> Some(NextCmd.path),
                             frame |-> None, total_frames |-> None,
                             brightness |-> status.brightness]
               /\ display' = display
               /\ pc' = "image_load"]_vars
    /\ [][(pc = "image_load" /\ pc' # pc)
            => /\ pc' = "recv"
               /\ IF load_and_resize_image(cmd[1].path).ok
                  THEN status' = status /\ visible' = Shown(cmd[1].path, brightness)
                  ELSE status'.state = "Idle" /\ display' = display]_vars
    /\ []((pc = "recv" /\ handled # <<>> /\ Last(handled).kind = "ShowImage")
            => IF load_and_resize_image(Last(handled).path).ok
               THEN /\ status.state = "ShowingImage"
                    /\ status.current_media = Some(Last(handled).path)
                    /\ visible = Shown(Last(handled).path, brightness)
               ELSE status.state = "Idle")

\* ShowingImage is published for a file that does not exist.
C16_Witness ==
    /\ pc = "image_load"
    /\ status.state = "ShowingImage"
    /\ status.current_media = Some("missing.png")
    /\ visible = Blank

\* A directory with at least one frame file that decodes.
VideoLoads(dir) ==
    /\ ReadDir(dir).ok
    /\ \E i \in DOMAIN ReadDir(dir).entries :
          /\ ReadDir(dir).entries[i].ext \in {"jpg", "jpeg", "png"}
          /\ ReadDir(dir).entries[i].k # 0

\* ---- C17: a PlayVideo whose directory is unreadable, has no frame file or
\* no frame that decodes, and a ScrollText whose font does not load, draw and
\* swap nothing and change no status field; the engine is back at the top of
\* its loop.
C17_FailedLoadChangesNothing ==
    [][(Dispatches /\ (\/ NextCmd.kind = "PlayVideo" /\ ~VideoLoads(NextCmd.path)
                       \/ NextCmd.kind = "ScrollText" /\ NextCmd.font # "6x10"))
         => /\ display' = display
            /\ status' = status
            /\ brightness' = brightness
            /\ pending' = None
            /\ pc' = "recv"]_vars

\* A video was interrupted by a PlayVideo without decodable frames, then a
\* ScrollText without font followed: PlayingVideo is still published.
C17_Witness ==
    /\ pc = "recv"
    /\ Len(handled) = 3
    /\ handled[1] = PlayVideo("clip3", FALSE)
    /\ handled[2] = PlayVideo("allbad", FALSE)
    /\ handled[3].font = "nofont"
    /\ status.state = "PlayingVideo"
    /\ status.current_media = Some("clip3")

\* The frame files of a directory that decode.
GoodEntries(dir) ==
    { e \in { ReadDir(dir).entries[i] : i \in DOMAIN ReadDir(dir).entries } :
        e.ext \in {"jpg", "jpeg", "png"} /\ e.k # 0 }

\* The place of a frame file among those that decode, in path order.
Rank(e, G) == 1 + Cardinality({ f \in G : LexLess(f.name, e.name) })

\* ---- C18: when some frame files fail to decode they are skipped: the run
\* plays the frames that decode, in lexicographic path order, and
\* total_frames is their number.
C18_BadFramesSkipped ==
    /\ [](pc \in {"play", "play_finish"}
            => LET G == GoodEntries(cmd[1].path)
               IN  /\ Len(frames) = Cardinality(G)
                   /\ status.total_frames = Some(Cardinality(G))
                   /\ \A e \in G :
                        frames[Rank(e, G)]
                          = apply_brightness_to_image(FrameImage(e.k, e.w, e.h),
                                                      current_brightness))
    /\ [][(pc = "play" /\ pc' # "recv" /\ submitted' = submitted /\ closed' = closed)
            => /\ status'.frame = Some(frame_index)
               /\ \A p \in DOMAIN frames[frame_index + 1].px :
                     visible'[p] = frames[frame_index + 1].px[p]]_vars

\* Of the four files of the directory two decode; the second of them is shown.
C18_Witness ==
    /\ pc = "play"
    /\ cmd[1].path = "partial"
    /\ status.total_frames = Some(2)
    /\ status.frame = Some(1)
    /\ visible[<<0, 0>>][1] = (3 * 50 * InitialBrightness) \div 100

\* ---- C19 (as stated): once a PlayVideo or ScrollText has ended and the
\* engine is again blocked waiting for a command, the published state is
\* not PlayingVideo or ScrollingText, whichever command ended the run.
C19_EndedRunsGoIdle ==
    (pc = "recv" /\ pending = None /\ chan = <<>>)
        => status.state \notin {"PlayingVideo", "ScrollingText"}

\* ---- C20 (as stated): every change of a status field is a step of the
\* render engine.
C20_OnlyEngineWritesStatus == [][status' # status => Engine]_vars

\* The locks the engine holds after the first i operations of a step.
RECURSIVE HeldAfter(_, _)
HeldAfter(o, i) ==
    IF i = 0 THEN {}
    ELSE LET h == HeldAfter(o, i - 1)
         IN  CASE o[i] = "lock_status" -> h \cup {"status"}
               [] o[i] = "unlock_status" -> h \ {"status"}
               [] o[i] = "lock_brightness" -> h \cup {"brightness"}
               [] o[i] = "unlock_brightness" -> h \ {"brightness"}
               [] OTHER -> h

\* The four media fields as one engine update leaves them.
WholeStatus(s) ==
    CASE s.state = "Idle" ->
            s.current_media = None /\ s.frame = None /\ s.total_frames = None
      [] s.state \in {"ShowingImage", "ScrollingText"} ->
            s.current_media # None /\ s.frame = None /\ s.total_frames = None
      [] s.state = "PlayingVideo" ->
            s.current_media # None /\ s.frame # None /\ s.total_frames # None
      [] OTHER -> FALSE

\* ---- C21: the engine holds no lock while it sleeps, receives, loads,
\* draws, clears or swaps, never takes a lock while it holds one, and holds
\* none when a step ends; an update of the state or media label is made
\* under one acquisition of the status lock, so the status read between two
\* engine steps never mixes the media fields of two updates.
C21_LocksHeldOnlyForAssignments ==
    /\ [](/\ \A i \in DOMAIN ops :
               ops[i] \notin {"unlock_status", "unlock_brightness"}
                  => HeldAfter(ops, i - 1) = {}
          /\ HeldAfter(ops, Len(ops)) = {}
          /\ WholeStatus(status))
    /\ [][(status'.state # status.state \/ status'.current_media # status.current_media)
            => Cardinality({ i \in DOMAIN ops' : ops'[i] = "lock_status" }) = 1]_vars

\* A tick that absorbed a SetBrightness: both locks taken in turn, then the
\* draw and swap, the frame index published, and the sleep.
C21_Witness ==
    /\ pc = "play"
    /\ ops = <<"try_recv", "lock_brightness", "unlock_brightness",
               "lock_status", "unlock_status", "draw", "swap",
               "lock_status", "unlock_status", "sleep">>
    /\ status.state = "PlayingVideo"
    /\ status.brightness = 40

\* ---- C22: the canvases change only in steps of the render engine; a step
\* of a request handler leaves the canvases and every variable of the
\* engine alone and at most appends one command to the channel.
C22_OnlyEngineDraws ==
    [][~Engine
         => /\ UNCHANGED <<display, brightness, pc, pending, cmd, locals, ops>>
            /\ \/ chan' = chan
               \/ /\ Len(chan') = Len(chan) + 1
                  /\ SubSeq(chan', 1, Len(chan)) = chan]_vars

\* A stream client is connected and the engine has drawn an image.
C22_Witness ==
    /\ ws = 1
    /\ handled # <<>>
    /\ Last(handled).kind = "ShowImage"
    /\ visible = Shown("ok.png", brightness)

C24_ProducersValidateLength ==
    /\ [](\A i \in DOMAIN submitted :
             /\ submitted[i].kind = "ShowFrame"
             /\ Len(submitted[i].data) = Rows * Cols * 3)
    /\ [][(reply'.n # reply.n /\ reply'.by \in {"http", "ws_binary"})
            => IF reply'.len # Rows * Cols * 3
               THEN /\ chan' = chan
                    /\ ws' = ws /\ status' = status
                    /\ reply'.outcome = IF reply'.by = "http" THEN "400" ELSE "skipped"
               ELSE IF pc = "done"
               THEN chan' = chan
               ELSE /\ Len(chan') = Len(chan) + 1
                    /\ SubSeq(chan', 1, Len(chan)) = chan
                    /\ Last(chan').kind = "ShowFrame"
                    /\ Len(Last(chan').data) = reply'.len
                    /\ ws' = ws]_vars

\* After a frame was accepted and shown, a stream message of the wrong
\* length was skipped, the client still connected.
C24_Witness ==
    /\ reply.by = "ws_binary"
    /\ reply.outcome = "skipped"
    /\ reply.len = Rows * Cols * 3 + 1
    /\ ws = 1
    /\ Len(handled) = 1
    /\ visible # Blank

C26_ApplyBrightnessScales ==
    calc.fn = "apply_brightness"
      => LET c == calc.arg[1]
             b == calc.arg[2]
             o == calc.out
         IN  /\ b >= 100 => o = c
             /\ b < 100 => \A i \in 1 .. 3 :
                              /\ o[i] * 100 <= c[i] * b
                              /\ c[i] * b < (o[i] + 1) * 100
                              /\ o[i] <= c[i]
                              /\ c[i] * b <= 65535
             /\ b = 0 => o = <<0, 0, 0>>
             /\ b = 50 => \A i \in 1 .. 3 : o[i] = c[i] \div 2

\* The colour of the unit test, halved.
C26_Witness ==
    calc = [fn |-> "apply_brightness", arg |-> <<<<200, 100, 50>>, 50>>,
            out |-> <<100, 50, 25>>]

\* ---- C27: from_hue gives a colour for every 16-bit hue, and the colour of
\* the hue reduced modulo 360: from_hue(360) = from_hue(0) and
\* from_hue(450) = from_hue(90).
C27_FromHuePeriodic ==
    calc.fn = "from_hue"
      => /\ calc.out \in (0 .. 255) \X (0 .. 255) \X (0 .. 255)
         /\ calc.out = from_hue(calc.arg[1] % 360)
         /\ calc.arg[1] >= 360 => calc.out = from_hue(calc.arg[1] - 360)

\* from_hue(450), which is from_hue(90): half way from yellow to green.
C27_Witness ==
    calc = [fn |-> "from_hue", arg |-> <<450>>, out |-> <<127, 255, 0>>]

\* The channel that holds 255, the one that holds 0 and the one that ramps,
\* by sector, and whether the ramp rises.
Ramp(sector) ==
    CASE sector = 0 -> [full |-> 1, off |-> 3, ramp |-> 2, up |-> TRUE]
      [] sector = 1 -> [full |-> 2, off |-> 3, ramp |-> 1, up |-> FALSE]
      [] sector = 2 -> [full |-> 2, off |-> 1, ramp |-> 3, up |-> TRUE]
      [] sector = 3 -> [full |-> 3, off |-> 1, ramp |-> 2, up |-> FALSE]
      [] sector = 4 -> [full |-> 3, off |-> 2, ramp |-> 1, up |-> TRUE]
      [] sector = 5 -> [full |-> 1, off |-> 2, ramp |-> 3, up |-> FALSE]

\* ---- C28: at a sector boundary from_hue gives the pure colour (the ramp
\* channel 0 in a rising sector, 255 in a falling one); for every hue one
\* channel is 255, one is 0, and the third does not fall from one degree to
\* the next in a rising sector and does not rise in a falling one.
C28_FromHueRamp ==
    calc.fn = "from_hue"
      => LET h == calc.arg[1] % 360
             r == Ramp(h \div 60)
             o == calc.out
         IN  /\ o[r.full] = 255
             /\ o[r.off] = 0
             /\ h % 60 = 0 => o[r.ramp] = IF r.up THEN 0 ELSE 255
             /\ h % 60 # 0 =>
                  IF r.up THEN o[r.ramp] >= from_hue(h - 1)[r.ramp]
                          ELSE o[r.ramp] <= from_hue(h - 1)[r.ramp]
             /\ h = 0 => o = <<255, 0, 0>>
             /\ h = 60 => o = <<255, 255, 0>>
             /\ h = 120 => o = <<0, 255, 0>>
             /\ h = 180 => o = <<0, 255, 255>>
             /\ h = 240 => o = <<0, 0, 255>>
             /\ h = 300 => o = <<255, 0, 255>>

\* Cyan, at the boundary of the sectors 2 and 3.
C28_Witness ==
    calc = [fn |-> "from_hue", arg |-> <<180>>, out |-> <<0, 255, 255>>]

\* ---- C29 (as stated): for all positive 32-bit rows and cols, pixel_count
\* is the integer rows * cols and frame_byte_count the integer
\* rows * cols * 3.
C29_PanelProductsExact ==
    /\ calc.fn = "pixel_count"
         => /\ ~calc.out.panic
            /\ Pad(calc.out.val, 8) = MulLimbs(calc.arg[1], calc.arg[2])
    /\ calc.fn = "frame_byte_count"
         => /\ ~calc.out.panic
            /\ Pad(calc.out.val, 9)
                 = MulLimbs(MulLimbs(calc.arg[1], calc.arg[2]), Limbs(3, 1))

\* A byte of a raw frame at brightness b.
Scaled(v, b) == IF b >= 100 THEN v ELSE (v * b) \div 100

\* ---- C30: an accepted ShowFrame buffer is read row-major, three bytes
\* R, G, B per pixel: pixel (x, y) shows the bytes (y * cols + x) * 3, + 1
\* and + 2 (counted from 0) scaled by the current brightness; the byte
\* indices used are below frame_byte_count and no byte serves two pixels,
\* so every pixel is written once; the canvas drawn is swapped in.
C30_RawFrameRowMajor ==
    [][(Dispatches /\ NextCmd.kind = "ShowFrame" /\ Len(NextCmd.data) = Rows * Cols * 3)
         => /\ \A xx \in 0 .. Cols - 1, yy \in 0 .. Rows - 1 :
                 LET i == (yy * Cols + xx) * 3
                 IN  /\ i + 2 < Rows * Cols * 3
                     /\ visible'[<<xx, yy>>]
                          = << Scaled(NextCmd.data[i + 1], brightness),
                               Scaled(NextCmd.data[i + 2], brightness),
                               Scaled(NextCmd.data[i + 3], brightness) >>
            /\ { (p[2] * Cols + p[1]) * 3 + k : p \in Pos, k \in 0 .. 2 }
                 = 0 .. Rows * Cols * 3 - 1
            /\ canvas' = visible]_vars

\* A frame shown at brightness 40: the last pixel shows the last three bytes.
C30_Witness ==
    /\ pc = "recv"
    /\ brightness = 40
    /\ handled # <<>>
    /\ Last(handled).kind = "ShowFrame"
    /\ Len(Last(handled).data) = Rows * Cols * 3
    /\ visible[<<Cols - 1, Rows - 1>>][3] = (Last(handled).data[Rows * Cols * 3] * 40) \div 100
    /\ visible[<<0, Rows - 1>>][1] = (Last(handled).data[(Rows - 1) * Cols * 3 + 1] * 40) \div 100

\* The elements of a sequence.
Range(s) == { s[i] : i \in DOMAIN s }

\* ---- C31: the frame sequence of a video directory is exactly the set of
\* its entries whose extension is jpg, jpeg or png, each once, in ascending
\* lexicographic path order; entries with another or no extension are
\* ignored; a directory without such an entry gives an error, not an empty
\* sequence.
C31_FramePathsFilteredSorted ==
    calc.fn = "load_frame_paths"
      => LET d == calc.arg[1]
             r == calc.out
             G == { e \in Range(d.entries) : e.ext \in {"jpg", "jpeg", "png"} }
         IN  /\ (d.ok /\ G # {})
                  => /\ r.ok
                     /\ Range(r.paths) = G
                     /\ Len(r.paths) = Cardinality(G)
                     /\ \A i \in 1 .. Len(r.paths) - 1 :
                           LexLess(r.paths[i].name, r.paths[i + 1].name)
             /\ (d.ok /\ G = {}) => ~r.ok
             /\ r.ok => r.paths # <<>>

\* A listing read as 2.png, 9.txt, 10.jpg gives 10.jpg, 2.png.
C31_Witness ==
    /\ calc.fn = "load_frame_paths"
    /\ calc.arg[1].ok
    /\ Len(calc.arg[1].entries) = 3
    /\ calc.arg[1].entries[1].name = <<2>>
    /\ calc.arg[1].entries[2].ext = "txt"
    /\ calc.arg[1].entries[3].name = <<1, 0>>
    /\ calc.out.ok
    /\ Len(calc.out.paths) = 2
    /\ calc.out.paths[1].name = <<1, 0>>
    /\ calc.out.paths[2].name = <<2>>

\* name = stem "." ext with a stem that is not empty
HasExt(name, ext) ==
    /\ Len(name) > Len(ext) + 1
    /\ SubSeq(name, Len(name) - Len(ext), Len(name)) = <<46>> \o ext

Ascending(names) == \A i \in 1 .. Len(names) - 1 : LexLess(names[i], names[i + 1])

\* The frame images among the names of a sub-directory.
FrameNames(sub) ==
    { i \in 1 .. Len(sub.names) :
        \E e \in {ext_png, ext_jpg, ext_jpeg} : HasExt(sub.names[i], e) }

RECURSIVE Unswapped(_, _)
Unswapped(o, i) ==
    IF i = 0 THEN FALSE
    ELSE CASE o[i] \in {"draw", "clear"} -> TRUE
           [] o[i] = "swap" -> FALSE
           [] OTHER -> Unswapped(o, i - 1)

\* ---- C33: at every receive of the engine, blocking or not, every draw since
\* the previous receive has been swapped to the display: no step receives
\* after a draw that is not swapped, and none ends with one; the buffers change
\* only by a swap, and a tick that takes a command out of the channel to
\* leave its loop draws nothing.
C33_ReceiveOnlyBetweenFrames ==
    /\ [](/\ \A i \in DOMAIN ops :
                ops[i] \in {"recv", "try_recv"} => ~Unswapped(ops, i - 1)
          /\ ~Unswapped(ops, Len(ops)))
    /\ [][/\ display' # display => (canvas' = visible /\ Last(ops') \in {"swap", "sleep", "unlock_status"}
                                      /\ "swap" \in Range(ops'))
          /\ (InLoop /\ pc' = "recv") => (display' = display /\ ops' = <<"try_recv">>)]_vars

\* A scroll tick that has received nothing, cleared, drawn, swapped and slept.
C33_Witness ==
    /\ pc = "scroll"
    /\ ops = <<"try_recv", "clear", "draw", "swap", "sleep">>
    /\ visible # canvas

\* A step of the engine: the producers change submitted or closed.
EngineStep == submitted' = submitted /\ closed' = closed

\* ---- C34: with loop = true a PlayVideo over N frames never ends by itself:
\* a tick that draws frame i publishes i and moves the cursor to i + 1, and
\* to 0 after frame N - 1; no tick of the run clears the canvas or sets the
\* status Idle; the run is left only by a tick that takes a command other
\* than SetBrightness out of the channel.
C34_LoopingVideoNeverEnds ==
    /\ [](pc = "play_finish" => ~cmd[1].loop)
    /\ []((pc = "play" /\ cmd[1].loop) => status.state = "PlayingVideo")
    /\ [][(pc = "play" /\ cmd[1].loop /\ EngineStep)
            => \/ /\ pc' = "play"
                  /\ frame_index' = (frame_index + 1) % Len(frames)
                  /\ status'.frame = Some(frame_index)
                  /\ status'.total_frames = Some(Len(frames))
                  /\ status'.state = "PlayingVideo"
                  /\ visible' = [p \in Pos |-> frames[frame_index + 1].px[p]]
                  /\ "clear" \notin Range(ops')
                  /\ frames' = frames
               \/ /\ pc' = "recv"
                  /\ chan # <<>>
                  /\ Head(chan).kind # "SetBrightness"
                  /\ pending' = Some(Head(chan))
                  /\ status' = status
                  /\ display' = display]_vars

\* A looping run of three frames that has shown the last one and is back at
\* the first, after absorbing a SetBrightness.
C34_Witness ==
    /\ pc = "play"
    /\ cmd[1].loop
    /\ Len(frames) = 3
    /\ frame_index = 0
    /\ status.frame = Some(2)
    /\ status.state = "PlayingVideo"
    /\ Len(handled) = 2
    /\ Last(handled).kind = "SetBrightness"

\* The width in pixels of the text being scrolled.
ScrolledWidth == Len(cmd[1].text) * 8

\* ---- C35: a ScrollText starts at x = cols; every tick that draws puts the
\* text at x and moves x one to the left; the tick that draws at -text_width
\* puts x back to cols; at every draw -text_width <= x <= cols, and the
\* number of ticks since the start of the pass, cols - x, counts modulo
\* cols + text_width + 1.
C35_ScrollPositionCycles ==
    /\ [](pc = "scroll" => (-ScrolledWidth <= x /\ x <= Cols))
    /\ [][/\ (Dispatches /\ pc' = "scroll") => x' = Cols
          /\ (pc = "scroll" /\ pc' = "scroll" /\ EngineStep)
               => /\ x' = (IF x = -ScrolledWidth THEN Cols ELSE x - 1)
                  /\ Cols - x' = (Cols - x + 1) % (Cols + ScrolledWidth + 1)
                  /\ \A p \in Pos :
                        (visible'[p] # Black) => (x <= p[1] /\ p[1] < x + ScrolledWidth)]_vars

\* The tick that drew the two-character text at -16, where nothing of it
\* shows, and put x back to cols.
C35_Witness ==
    /\ pc = "scroll"
    /\ ops = <<"try_recv", "clear", "draw", "swap", "sleep">>
    /\ cmd[1].text = "BC"
    /\ x = Cols
    /\ visible = Blank
    /\ canvas # Blank

\* ---- C36 (as stated): once every sender is dropped, an engine that is
\* running (its hardware initialised) eventually executes the commands still
\* queued and shuts down, whatever it is doing when the channel closes, a
\* ScrollText in flight included.
C36_ClosedLeadsToShutdown ==
    (closed /\ pc \notin {"init", "done"})
       ~> (pc = "done" /\ chan = <<>> /\ pending = None)

\* ---- C37 (as stated): in every interleaving of the engine with the request
\* handlers, WebSocket connect and disconnect included, the published state
\* is PlayingVideo while the engine is in the PlayVideo tick loop and
\* ScrollingText while it is in the ScrollText loop, and whenever it is Idle
\* the fields current_media, frame and total_frames are empty.
C37_StateMatchesEngine ==
    /\ pc = "play" => status.state = "PlayingVideo"
    /\ pc = "scroll" => status.state = "ScrollingText"
    /\ status.state = "Idle"
         => (status.current_media = None /\ status.frame = None /\ status.total_frames = None)

\* ---- C38: status.brightness and the shared brightness setting both start
\* at 75 and are equal whenever the engine is between two commands or two
\* ticks; in a ScrollText the cached brightness is the shared setting after
\* every tick, and the text of every tick is drawn in the colour scaled by
\* the shared setting of that moment.
C38_BrightnessInStep ==
    /\ [](/\ pc = "init" => (brightness = 75 /\ status.brightness = 75)
          /\ status.brightness = brightness
          /\ pc = "scroll" => current_brightness = brightness)
    /\ [][(pc = "scroll" /\ pc' = "scroll" /\ EngineStep)
            => \A p \in Pos :
                  (x <= p[1] /\ p[1] < x + ScrolledWidth)
                    => visible'[p] = << Scaled(cmd[1].color[1], brightness'),
                                        Scaled(cmd[1].color[2], brightness'),
                                        Scaled(cmd[1].color[3], brightness') >>]_vars

\* A scroll that started at brightness 40 set by a command of its own, absorbed
\* a SetBrightness(150) and shows the text unscaled.
C38_Witness ==
    /\ pc = "scroll"
    /\ Len(handled) = 3
    /\ handled[1].kind = "SetBrightness"
    /\ handled[1].value = 40
    /\ handled[3].kind = "SetBrightness"
    /\ handled[3].value = 150
    /\ brightness = 100
    /\ status.brightness = 100
    /\ current_brightness = 100
    /\ \E p \in Pos : visible[p] = cmd[1].color

\* ---- C39: in PlayVideo the cursor is a valid index at every frame access,
\* 0 <= frame_index < frame_count, looping or not; the engine's writes keep
\* status.frame below status.total_frames, with state PlayingVideo, whenever
\* both are present.
C39_FrameCursorInRange ==
    /\ [](/\ pc = "play" => (0 <= frame_index /\ frame_index < Len(frames))
          /\ (status.frame # None /\ status.total_frames # None)
               => /\ 0 <= status.frame[1]
                  /\ status.frame[1] < status.total_frames[1]
                  /\ status.state = "PlayingVideo")
    /\ [][(pc = "play" /\ EngineStep /\ pc' # "recv")
            => /\ frame_index + 1 \in DOMAIN frames
               /\ status'.frame = Some(frame_index)
               /\ status'.total_frames = Some(Len(frames))
               /\ pc' = "play" => frame_index' \in 0 .. Len(frames) - 1]_vars

\* A looping run absorbed a SetBrightness and was preempted by a run that
\* does not loop, whose last frame has been shown.
C39_Witness ==
    /\ pc = "play_finish"
    /\ ~cmd[1].loop
    /\ status.frame = Some(2)
    /\ status.total_frames = Some(3)
    /\ Len(handled) = 3
    /\ handled[1].kind = "PlayVideo"
    /\ handled[1].loop
    /\ handled[2].kind = "SetBrightness"

\* ---- C40 (as stated): after the swap of every PlayVideo tick each visible
\* pixel is the pixel of the current frame, and no pixel of an earlier frame
\* or command stays visible, whatever the size of the decoded frames: the
\* pixels a smaller frame does not cover are dark.
C40_TickShowsOnlyTheFrame ==
    [][(pc = "play" /\ EngineStep /\ pc' # "recv")
         => \A p \in Pos :
               visible'[p] = (IF p[1] < frames[frame_index + 1].w /\ p[2] < frames[frame_index + 1].h
                              THEN frames[frame_index + 1].px[p] ELSE Black)]_vars

====
